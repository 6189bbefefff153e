-------------------------------- MODULE Wire --------------------------------
(***************************************************************************)
(* What the servers put on the wire: packets and addresses.  A behaviour is *)
(* about a Packer and its packets or about an address, or keys.             *)
(***************************************************************************)
EXTENDS Packets, Addresses

WireInit == PacketsInit /\ NoAddress

UsePacker == NoAddress /\ PacketsNext /\ UNCHANGED addressVars
UseAddress == PacketsInit /\ AddressNext /\ UNCHANGED packetVars

WireSpec == WireInit /\ [][UsePacker \/ UseAddress]_<<packetVars, addressVars>>
=============================================================================
