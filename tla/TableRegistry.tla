---------------------------- MODULE TableRegistry ----------------------------
(***************************************************************************)
(* What createTable and dropTable promise about the set of tables that a   *)
(* database has, now and after any restart: a call that succeeds has       *)
(* registered or removed its table, in one step; a call that throws has    *)
(* changed nothing; of a call whose process died it may be either.         *)
(***************************************************************************)
CONSTANTS Names, Schemas, None

VARIABLES registered,  \* for every name: the schema of its table, or None
          call,        \* the call in progress
          done,        \* whether it has taken effect
          reply        \* what the last call returned: "none", "ok" or "error"

vars == <<registered, call, done, reply>>

NoCall == [kind |-> "none", name |-> None, schema |-> None]
Calls == [kind : {"create"}, name : Names, schema : Schemas]
         \cup [kind : {"drop"}, name : Names, schema : {None}]

Init == /\ registered \in [Names -> Schemas \cup {None}]
        /\ call = NoCall
        /\ done = FALSE
        /\ reply = "none"

Begin == /\ call = NoCall
         /\ call' \in Calls
         /\ reply' = "none"
         /\ UNCHANGED <<registered, done>>

TakeEffect == /\ call # NoCall /\ ~done
              /\ \/ /\ call.kind = "create"
                    /\ registered[call.name] = None
                 \/ /\ call.kind = "drop"
                    /\ registered[call.name] # None
              /\ registered' = [registered EXCEPT ![call.name] = call.schema]
              /\ done' = TRUE
              /\ UNCHANGED <<call, reply>>

Finish(status) == /\ call' = NoCall
                  /\ done' = FALSE
                  /\ reply' = status
                  /\ UNCHANGED registered

Succeed == done /\ Finish("ok")
Throw == call # NoCall /\ ~done /\ Finish("error")
Crash == Finish("none")

Next == Begin \/ TakeEffect \/ Succeed \/ Throw \/ Crash

Spec == Init /\ [][Next]_vars
=============================================================================
