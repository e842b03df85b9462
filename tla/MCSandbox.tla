----------------------------- MODULE MCSandbox -----------------------------
(* Small instances of Metrics and Sandbox for TLC. *)
EXTENDS Sandbox

CONSTANTS trunk, x, h1, t1, t2, memory, session, i, v, w, insert

TwoBranches == {trunk, x}
TwoTypes      == <<memory, session>>
OneOfEach     == {<<memory, i>>, <<session, i>>}
TwoContents   == {v, w}
OneKind       == {insert}
TwoTrackers   == {t1, t2}
OneHost       == {h1}
FourFifths    == <<4, 5>>

\* At first the trunk has one row.
SmallInit == SandboxInit /\ db[trunk] = [Blank EXCEPT ![<<memory, i>>] = v]

\* Three things happen besides the steps of what is under way, of which two are
\* calls of the tracker or simulations.
SmallNext == Next /\ calls' + simulations' <= 2 /\ calls' + changes' + simulations' <= 3

Disturbed == SmallInit /\ [][SmallNext]_allVars /\ \A h \in Hosts : WF_allVars(Engine(h))
=============================================================================
