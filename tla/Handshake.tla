------------------------------ MODULE Handshake ------------------------------
(***************************************************************************)
(* What the enrollment handshake promises to the embedder's backend: a     *)
(* begun handshake releases at most one activation proof, only after its   *)
(* AK was made durable on the device; a superseded, failed or abandoned    *)
(* handshake never releases one; the server enrolls only on such a proof.  *)
(***************************************************************************)
CONSTANT Ids  \* handshakes, one per enroll body handed out

VARIABLES phase,    \* the life of each handshake
          enrolled  \* the server holds an AK of the device

Phases == {"unused", "open", "durable", "proved", "closed"}

TypeOK == phase \in [Ids -> Phases] /\ enrolled \in BOOLEAN

Init == phase = [i \in Ids |-> "unused"] /\ enrolled = FALSE

In(ph) == {i \in Ids : phase[i] \in ph}

Closing(S) == [i \in Ids |-> IF i \in S THEN "closed" ELSE phase[i]]

\* A new handshake may supersede the one open in its process.
Begin(i) == /\ phase[i] = "unused"
            /\ \E S \in SUBSET In({"open"}) :
                 phase' = [Closing(S) EXCEPT ![i] = "open"]
            /\ UNCHANGED enrolled

MakeDurable(i) == /\ phase[i] = "open"
                  /\ phase' = [phase EXCEPT ![i] = "durable"]
                  /\ UNCHANGED enrolled

Prove(i) == /\ phase[i] = "durable"
            /\ phase' = [phase EXCEPT ![i] = "proved"]
            /\ UNCHANGED enrolled

\* A failed call closes one handshake, a reboot those of every process.
Abandon == /\ \E S \in SUBSET In({"open", "durable"}) : phase' = Closing(S)
           /\ UNCHANGED enrolled

Enroll == /\ In({"proved"}) # {}
          /\ enrolled' = TRUE
          /\ UNCHANGED phase

Next == \/ \E i \in Ids : Begin(i) \/ MakeDurable(i) \/ Prove(i)
        \/ Abandon
        \/ Enroll

Spec == Init /\ [][Next]_<<phase, enrolled>>
==============================================================================
