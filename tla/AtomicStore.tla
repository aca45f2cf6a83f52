---------------------------- MODULE AtomicStore ----------------------------
(***************************************************************************)
(* What a caller of withProjectTransaction is promised: the files of the    *)
(* store change only as a whole, the effect of an idempotency key is        *)
(* applied at most once, and a key is acknowledged only once applied.       *)
(***************************************************************************)
CONSTANTS Key, File

VARIABLES content,  \* content[f]: the keys whose effect file f carries
          acked     \* the keys some caller was told had succeeded

storeVars == <<content, acked>>

StoreInit == /\ content = [f \in File |-> {}]
             /\ acked = {}

\* Every file takes the effect of k in one step, if no file has it yet.
Apply(k) == /\ \A f \in File : k \notin content[f]
            /\ content' = [f \in File |-> content[f] \cup {k}]
            /\ UNCHANGED acked

\* Success is reported only for an effect that every file carries.
Acknowledge(k) == /\ \A f \in File : k \in content[f]
                  /\ acked' = acked \cup {k}
                  /\ UNCHANGED content

StoreNext == \E k \in Key : Apply(k) \/ Acknowledge(k)

StoreSpec == StoreInit /\ [][StoreNext]_storeVars
=============================================================================
