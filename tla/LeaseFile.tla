----------------------------- MODULE LeaseFile -----------------------------
(***************************************************************************)
(* How the agent reads the lease file of dhcpd (GetDhcpClients of          *)
(* pkg/dhcpserver/tools.go and the maps of updateStats).                   *)
(*                                                                         *)
(* dhcpd appends a block whenever a lease changes; the last block of an    *)
(* address is the one that counts.  A line is a record: kind says which of *)
(* the parser's tests it meets, and val is what the parser takes from it.  *)
(* dhcpd may be in the middle of a block, and of a line of it, when the    *)
(* file is read.                                                           *)
(***************************************************************************)
EXTENDS SequencesExt

CONSTANTS
    Absent,  \* no client, no value
    Empty,   \* the empty string
    Blocks,  \* the blocks dhcpd may write: address, hardware address, state
    Files,   \* the lease files to read: sequences of blocks
    Cut      \* of an address, a hardware address or a state, what may be
             \* read of it where the file ends in the middle of its line

\* The clients the parser may make of these blocks.
ClientInfo == [ip : UNION {{b.ip} \cup Cut[b.ip] : b \in Blocks},
               mac : UNION {{Empty, b.mac} \cup Cut[b.mac] : b \in Blocks},
               active : BOOLEAN]

ASSUME LeaseFileAssumption ==
    /\ Files \subseteq Seq(Blocks)
    /\ Absent \notin ClientInfo

Line(kind, val) == [kind |-> kind, val |-> val]

\* The lines of a block as dhcpd writes them.  An abandoned lease has no
\* hardware address.
BlockLines(b) ==
    <<Line("lease", b.ip), Line("starts", Absent), Line("state", b.state)>>
    \o (IF b.state = "active" THEN <<Line("state", "free")>> ELSE <<>>)  \* next binding state
    \o (IF b.mac = Empty THEN <<>> ELSE <<Line("hardware", b.mac)>>)
    \o <<Line("end", Absent)>>

NewClient(ip) == [ip |-> ip, mac |-> Empty, active |-> FALSE]

\* Mutant: the record of the block before is used again.
ReuseClient(acc, line) ==
    CASE line.kind = "lease" ->
           [clients |-> IF acc.cur = Absent THEN acc.clients
                        ELSE Append(acc.clients, acc.cur),
            cur |-> IF acc.clients = <<>> THEN NewClient(line.val)
                    ELSE [Last(acc.clients) EXCEPT !.ip = line.val]]
      [] line.kind = "end" /\ acc.cur # Absent ->
           [clients |-> Append(acc.clients, acc.cur), cur |-> Absent]
      [] line.kind = "hardware" /\ acc.cur # Absent ->
           [acc EXCEPT !.cur.mac = line.val]
      [] OTHER -> acc

\* One turn of the loop.  "next binding state" contains "binding state", so it
\* overwrites Active.
ParseLine(acc, line) ==
    CASE line.kind = "lease" ->
           [clients |-> IF acc.cur = Absent THEN acc.clients
                        ELSE Append(acc.clients, acc.cur),
            cur |-> NewClient(line.val)]
      [] line.kind = "end" /\ acc.cur # Absent ->
           [clients |-> Append(acc.clients, acc.cur), cur |-> Absent]
      [] line.kind = "hardware" /\ acc.cur # Absent ->
           [acc EXCEPT !.cur.mac = line.val]
      [] line.kind = "state" /\ acc.cur # Absent ->
           [acc EXCEPT !.cur.active = (line.val = "active")]
      [] OTHER -> acc

\* The variables of the loop after each turn.
Scan(lines) ==
    LET scan[i \in 0 .. Len(lines)] ==
          IF i = 0 THEN [clients |-> <<>>, cur |-> Absent]
          ELSE ParseLine(scan[i - 1], lines[i])
    IN  scan

GetDhcpClients(lines) ==
    LET acc == Scan(lines)[Len(lines)]
    IN  IF acc.cur = Absent THEN acc.clients ELSE Append(acc.clients, acc.cur)

\* newClients of updateStats: of several clients with one address the last.
newClients(clients) ==
    [ip \in {clients[i].ip : i \in DOMAIN clients} |->
       clients[SelectLastInSeq(clients, LAMBDA c : c.ip = ip)]]

-----------------------------------------------------------------------------
(* The reference: what the blocks of a file say.                           *)

Addresses(blocks) == {blocks[i].ip : i \in DOMAIN blocks}

\* The last of the blocks of an address.
LastBlock(blocks, ip) ==
    blocks[CHOOSE i \in DOMAIN blocks :
             /\ blocks[i].ip = ip
             /\ \A j \in i + 1 .. Len(blocks) : blocks[j].ip # ip]

\* The addresses that are leased; the other ones were released or abandoned.
Leased(blocks) ==
    {ip \in Addresses(blocks) : LastBlock(blocks, ip).state = "active"}

\* What the end of a file may show of a line: nothing, something no test of the
\* parser meets, or the line with a part of its value.
Torn(line) ==
    {<<>>, <<Line("starts", Absent)>>}
      \cup {<<Line(line.kind, v)>> :
              v \in IF line.kind \in {"lease", "state", "hardware"}
                    THEN Cut[line.val] ELSE {}}

\* A file of complete blocks, the first lines of another one, and what there is
\* of the line that follows.
File(blocks, next, lines, end) ==
    FlattenSeq([i \in DOMAIN blocks |-> BlockLines(blocks[i])])
      \o SubSeq(BlockLines(next), 1, lines) \o end

\* The address the unfinished block is read under, if it is read at all.
Begun(next, lines, end) ==
    IF lines > 0 THEN {next.ip}
    ELSE {end[i].val : i \in {j \in DOMAIN end : end[j].kind = "lease"}}

\* The hardware address of an unfinished block: its own, a part of it or none.
Unfinished(next) == {Empty, next.mac} \cup Cut[next.mac]

\* What a poll reports of such a file: every leased address with the hardware
\* address of its last block, and nothing that has no block.  Only the address
\* of the unfinished block may show less.  That an address whose lease has been
\* released or abandoned is not reported any more is not said here: Active is
\* read by nothing, and the client stays in the list.
ReadsLeases(blocks, next, lines, end) ==
    LET seen == newClients(GetDhcpClients(File(blocks, next, lines, end)))
        open == Begun(next, lines, end)
    IN  /\ \A ip \in Leased(blocks) \ open :
             ip \in DOMAIN seen /\ seen[ip].mac = LastBlock(blocks, ip).mac
        /\ DOMAIN seen \subseteq Addresses(blocks) \cup open
        /\ \A ip \in open : ip \in DOMAIN seen /\ seen[ip].mac \in Unfinished(next)
=============================================================================
