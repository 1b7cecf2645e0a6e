------------------------------ MODULE SignedLog ------------------------------
(***************************************************************************)
(* What the signed event log of a seed directory promises: events are      *)
(* appended one at a time, each takes the next position, carries the hash  *)
(* of its predecessor's signature and is signed with the seed's key.       *)
(*                                                                         *)
(* This is the abstract log.  EventLog shows that the MySQL transactions   *)
(* of src/src/db.rs implement it; SeedDirectory and Federation build on    *)
(* its Append.                                                             *)
(***************************************************************************)
EXTENDS Naturals, Sequences

CONSTANTS
    Bodies,         \* what a caller asks to be logged: type, node and payload
    SigningKeys,    \* Ed25519 signing keys a seed may be configured with
    NoSig           \* the NULL of node_event_chain_heads.last_signature

(***************************************************************************)
(* A signature is identified by the key that made it and by the part of    *)
(* the message that tells two events of a log apart: seq, and the body in  *)
(* place of event_id, event_type, ts_ms and payload.  The message also     *)
(* binds prev_hash, which the rows before seq determine; it does not bind  *)
(* node_id.                                                                *)
(***************************************************************************)
Sigs == [key : SigningKeys, seq : Nat, body : Bodies]

VARIABLE events     \* the committed rows of node_events, in seq order

-----------------------------------------------------------------------------

sign_event(key, body, seq) == [key |-> key, seq |-> seq, body |-> body]

verify_event(pubkey, row) == row.sig = sign_event(pubkey, row.body, row.seq)

(***************************************************************************)
(* The link to the predecessor: the hash of its signature, or GENESIS_ROOT *)
(* for the first event.  SHA-256 is an injective tagging of its argument.  *)
(***************************************************************************)
GENESIS_ROOT == <<"genesis_root">>
prev_hash_from(sig) == IF sig = NoSig THEN GENESIS_ROOT ELSE <<"sha256", sig>>

EventRow(key, body, seq, prev_sig) ==
    [seq |-> seq, body |-> body, prev_hash |-> prev_hash_from(prev_sig),
     sig |-> sign_event(key, body, seq)]

LastSig(log) == IF log = << >> THEN NoSig ELSE log[Len(log)].sig

(***************************************************************************)
(* One append: the next position, linked to the last signature.            *)
(***************************************************************************)
AppendTo(log, key, body) ==
    Append(log, EventRow(key, body, Len(log) + 1, LastSig(log)))

-----------------------------------------------------------------------------

Init == events = << >>

AppendEvent(key, body) == events' = AppendTo(events, key, body)

Next == \E key \in SigningKeys, body \in Bodies : AppendEvent(key, body)

Spec == Init /\ [][Next]_events

-----------------------------------------------------------------------------

Hashes == {GENESIS_ROOT} \cup ({"sha256"} \X Sigs)
Rows == [seq : Nat, body : Bodies, prev_hash : Hashes, sig : Sigs]

(***************************************************************************)
(* The row at position i continues the chain: its seq is its position and  *)
(* its prev_hash is the hash of the signature before it.                   *)
(***************************************************************************)
Linked(log, i) ==
    /\ log[i].seq = i
    /\ log[i].prev_hash =
          prev_hash_from(IF i = 1 THEN NoSig ELSE log[i - 1].sig)

(***************************************************************************)
(* The hash chain has no gap, no fork and no missing link.                 *)
(***************************************************************************)
ChainIntact == \A i \in 1..Len(events) : Linked(events, i)
=============================================================================
