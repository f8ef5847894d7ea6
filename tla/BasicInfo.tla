----------------------------- MODULE BasicInfo -----------------------------
(* The address and the hardware address of a host, as the status of a      *)
(* HostStatus and an entry of HostCacheDatabase hold them.                 *)
EXTENDS Integers

CONSTANTS
    IPs,     \* addresses
    Macs,    \* hardware addresses of DHCP clients
    NoMac,   \* the empty string: a static host, or a lease that has none
    None     \* no object, no entry, no status

Basic == [ip : IPs, mac : Macs \cup {NoMac}, dhcp : BOOLEAN]
=============================================================================
