---------------------------- MODULE MCScheduler ----------------------------
EXTENDS Scheduler

CONSTANTS p1, p2, base, suffixed

Plain      == [m \in {base} |-> base]
WithSuffix == [m \in {base, suffixed} |-> base]

Flat(p, q)       == [provider |-> p, priority |-> q, parent |-> NoParent, ws |-> FALSE]
Websocket(p, q)  == [provider |-> p, priority |-> q, parent |-> NoParent, ws |-> TRUE]
Child(p, q, parent) == [provider |-> p, priority |-> q, parent |-> parent, ws |-> FALSE]

\* Two providers, two priorities; one auth may move between both.
TwoProviders ==
  (1 :> {Flat(p1, 1), Flat(p1, 2), Flat(p2, 2)}) @@ (2 :> {Flat(p1, 1)})

\* Virtual children of two parents: one may move to the second provider, one
\* may change its priority.
Mixed ==
  (1 :> {Child(p1, 1, 1), Flat(p2, 2)}) @@ (2 :> {Child(p1, 1, 1)})
    @@ (3 :> {Child(p1, 1, 2), Child(p1, 2, 2)})

\* One provider with a websocket auth next to a plain one.
MixedTransport == (1 :> {Websocket(p1, 1)}) @@ (2 :> {Flat(p1, 1), Flat(p1, 2)})

Req(tried, pin, ws) == [tried |-> tried, pin |-> pin, ws |-> ws]

Untried      == {Req({}, NoAuth, FALSE)}
TriedOrPin   == {Req(t, NoAuth, FALSE) : t \in {{}, {1}}} \cup {Req({}, 1, FALSE)}
OverWS       == {Req(t, NoAuth, TRUE) : t \in {{}, {1}}}

\* Scheduler, as stated there: the indexes are those of the records, and what is picked from
\* them is what the selector would pick.
PicksAsSelector == EmulatesSelector /\ IndexesCurrent

\* Scheduler, as stated there: the rotation is fair from wherever the cursors stand, and no
\* report moves them.
RotationKept == []RotationFair /\ CursorsSurvive

Single       == {<<p1>>}
Both         == {<<p1, p2>>}
==============================================================================
