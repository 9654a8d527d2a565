---------------------------- MODULE LastCommand ----------------------------
(***************************************************************************)
(* Commands on their way: a command has the name of what it is for (id)    *)
(* and sets it or not (set), and what counts in the end is the last one.   *)
(***************************************************************************)
EXTENDS Integers, Sequences

\* Whether the last command for id in s sets it, or d when there is none.
LastFor(id, s, d) ==
  \/ \E k \in 1 .. Len(s) :
       /\ s[k].id = id /\ s[k].set
       /\ \A m \in 1 .. Len(s) : m > k => s[m].id # id
  \/ d /\ \A k \in 1 .. Len(s) : s[k].id # id

\* The commands for id in s, in their order: what each of them sets.
CommandsFor(id, s) ==
  LET upTo[n \in 0 .. Len(s)] ==
        IF n = 0 THEN <<>>
        ELSE IF s[n].id = id THEN Append(upTo[n - 1], s[n].set)
        ELSE upTo[n - 1]
  IN upTo[Len(s)]
=============================================================================
