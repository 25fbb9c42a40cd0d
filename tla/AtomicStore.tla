---------------------------- MODULE AtomicStore ----------------------------
(***************************************************************************)
(* What atomic_json.py gives the users of one state file.  An update whose *)
(* locked read was answered is applied at once and as a whole on top of    *)
(* all that is there; one whose read failed began from nothing and         *)
(* replaces what is there; nothing else takes an update away.  A reader    *)
(* sees the whole file of that moment, or nothing when its read fails.     *)
(***************************************************************************)
CONSTANTS Updates, StoreReaders

VARIABLES stored,   \* the updates that are in the file
          acked,    \* the updates whose writers have returned
          seen,     \* what each reader saw last
          misread,  \* the updates under way whose read failed
          blind     \* the readers whose last read failed

registerVars == <<stored, acked, seen, misread, blind>>

RegisterInit == /\ stored = {}
                /\ acked = {}
                /\ seen = [r \in StoreReaders |-> {}]
                /\ misread = {} /\ blind = {}

(* The locked read of an update: answered, or not; or the update is given up. *)
Fetch(u) == /\ misread' \in {misread \ {u}, misread \cup {u}}
            /\ UNCHANGED <<stored, acked, seen, blind>>

Apply(u) == /\ u \notin misread
            /\ stored' = stored \cup {u}
            /\ UNCHANGED <<acked, seen, misread, blind>>

Replace(u) == /\ u \in misread
              /\ stored' = {u}
              /\ UNCHANGED <<acked, seen, misread, blind>>

Acknowledge(u) == /\ u \in stored
                  /\ acked' = acked \cup {u}
                  /\ misread' = misread \ {u}
                  /\ UNCHANGED <<stored, seen, blind>>

Look(r) == /\ seen' = [seen EXCEPT ![r] = stored]
           /\ blind' = blind \ {r}
           /\ UNCHANGED <<stored, acked, misread>>

LookFails(r) == /\ seen' = [seen EXCEPT ![r] = {}]
                /\ blind' = blind \cup {r}
                /\ UNCHANGED <<stored, acked, misread>>

RegisterNext == \/ \E u \in Updates : Fetch(u) \/ Apply(u) \/ Replace(u) \/ Acknowledge(u)
                \/ \E r \in StoreReaders : Look(r) \/ LookFails(r)

RegisterSpec == RegisterInit /\ [][RegisterNext]_registerVars
=============================================================================
