------------------------- MODULE MCSelectiveCommit -------------------------
(* Small instances of SelectiveCommit for TLC. *)
EXTENDS SelectiveCommit, TLC

CONSTANTS x, y, c1, c2, f, g, v, memory, session, i

TwoBranches == {x, y}
TwoClients  == {c1, c2}
TwoTypes    == {memory, session}
TwoFields   == {f, g}
OneValue    == {v}

OneOfEach == {<<memory, i>>, <<session, i>>}

\* y has no table of sessions.
SomeTables == (x :> TwoTypes) @@ (y :> {memory})

Pick(source, target, selections) ==
  [source |-> source, target |-> target, selections |-> selections]

\* Everything of x to y, everything of y to x, and field f of a listed row.
Cross ==
  {CommitAll(x, y, <<memory, session>>),
   CommitAll(y, x, <<memory>>),
   Pick(x, y, <<SpecificFields(SpecificEntities(memory, {i}), {f})>>),
   Pick(x, y, <<SpecificFields(SpecificEntities(memory, {i}), {f}),
                SpecificFields(AllOfType(memory), {g})>>)}

\* Any contents, except that the row of the type that y has no table for, which no
\* commit of Cross writes, is there or not.
Start == Init /\ db[x][<<session, i>>] \in {Absent, NullRow}

\* A call is disturbed once: by another call or by another change.
Disturbed ==
  /\ Start /\ [][Next /\ calls' + changes' <= 2]_vars
  /\ \A c \in Clients : WF_vars(Continue(c))
=============================================================================
