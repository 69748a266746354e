------------------------------ MODULE RowStore ------------------------------
(***************************************************************************)
(* What the storage engine promises for the rows of one table: a map from  *)
(* row IDs to rows, changed by one insert, update or erase at a time.      *)
(* Each call takes effect at most once and in one step, whatever fails or  *)
(* crashes on the way: a call that reports success has taken effect, a     *)
(* call that reports an error, or whose process dies, has taken effect     *)
(* completely or not at all, and an ID given to an insert is never given   *)
(* to another one.                                                         *)
(***************************************************************************)
EXTENDS Naturals

CONSTANTS Ids,     \* the row IDs
          Vals,    \* the rows (the cells of a row, as one value)
          NoVal    \* the row argument of a call that has none

VARIABLES rows,    \* the table: a function from the live IDs to their rows
          issued,  \* every ID an insert ever took, or that a row ever had
          call,    \* the call in progress
          done,    \* whether the call in progress has taken effect
          reply    \* what the last call returned

vars == <<rows, issued, call, done, reply>>

NoCall == [kind |-> "none", id |-> 0, val |-> NoVal]
NoReply == [status |-> "none", id |-> 0]

Tables == UNION {[S -> Vals] : S \in SUBSET Ids}

Init == /\ rows \in Tables
        /\ issued \in SUBSET Ids
        /\ DOMAIN rows \subseteq issued
        /\ call = NoCall
        /\ done = FALSE
        /\ reply = NoReply

Finish(status, id) == /\ call' = NoCall
                      /\ done' = FALSE
                      /\ reply' = [status |-> status, id |-> id]

(* A client calls insert, update or erase. *)
Begin == /\ call = NoCall
         /\ call' \in [kind : {"insert"}, id : {0}, val : Vals]
                 \cup [kind : {"update"}, id : Ids, val : Vals]
                 \cup [kind : {"erase"}, id : Ids, val : {NoVal}]
         /\ reply' = NoReply
         /\ UNCHANGED <<rows, issued, done>>

(* An insert has chosen the ID it is going to use ... *)
Choose == /\ call.kind = "insert" /\ call.id = 0
          /\ \E i \in Ids \ issued : call' = [call EXCEPT !.id = i]
          /\ UNCHANGED <<rows, issued, done, reply>>

(* ... and reserved it: no later insert will choose it. *)
Reserve == /\ call.kind = "insert" /\ call.id \in Ids \ issued
           /\ issued' = issued \cup {call.id}
           /\ UNCHANGED <<rows, call, done, reply>>

(* The single step at which a call changes the table. *)
TakeEffect ==
  /\ call # NoCall /\ ~done
  /\ \/ /\ call.kind = "insert" /\ call.id \in issued \ DOMAIN rows
        /\ rows' = [i \in DOMAIN rows \cup {call.id} |->
                      IF i = call.id THEN call.val ELSE rows[i]]
     \/ /\ call.kind = "update" /\ call.id \in DOMAIN rows
        /\ rows' = [rows EXCEPT ![call.id] = call.val]
     \/ /\ call.kind = "erase" /\ call.id \in DOMAIN rows
        /\ rows' = [i \in DOMAIN rows \ {call.id} |-> rows[i]]
  /\ done' = TRUE
  /\ UNCHANGED <<issued, call, reply>>

Succeed == /\ done /\ Finish("ok", call.id)
           /\ UNCHANGED <<rows, issued>>

(* update and erase return false for an ID that names no row. *)
Missing == /\ call.kind \in {"update", "erase"} /\ call.id \notin DOMAIN rows
           /\ ~done /\ Finish("missing", call.id)
           /\ UNCHANGED <<rows, issued>>

(* The call throws. *)
Throw == /\ call # NoCall /\ Finish("error", 0)
         /\ UNCHANGED <<rows, issued>>

(* The process dies; nobody gets a reply. *)
Crash == /\ Finish("none", 0)
         /\ UNCHANGED <<rows, issued>>

Next == \/ Begin \/ Choose \/ Reserve \/ TakeEffect
        \/ Succeed \/ Missing \/ Throw \/ Crash

Spec == Init /\ [][Next]_vars
=============================================================================
