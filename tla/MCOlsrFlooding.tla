--------------------------- MODULE MCOlsrFlooding ---------------------------
(* Small radio graphs.  In the diamond 1 - {2, 3} - 4 two neighbours can    *)
(* reach node 4; the kite is a diamond whose middle nodes hear each other.  *)
EXTENDS OlsrFlooding

Both(links) == links \cup {<<l[2], l[1]>> : l \in links}

Couple == Both({<<1, 2>>})
Line == Both({<<1, 2>>, <<2, 3>>, <<3, 4>>})
LongLine == Line \cup Both({<<4, 5>>})
Star == Both({<<3, 1>>, <<3, 2>>, <<3, 4>>, <<3, 5>>})
Diamond == Both({<<1, 2>>, <<1, 3>>, <<2, 4>>, <<3, 4>>})
Kite == Diamond \cup Both({<<2, 3>>})

(* Every connected graph over the nodes, relabellings included. *)
IsConnected(g) ==
    LET reach[k \in Nat] ==
            IF k = 0 THEN {1}
            ELSE LET r == reach[k - 1]
                 IN  r \cup {l[2] : l \in {p \in g : p[1] \in r}}
    IN  reach[Cardinality(Node)] = Node
AllConnected ==
    {g \in {Both(half) : half \in SUBSET {p \in Node \X Node : p[1] < p[2]}} : IsConnected(g)}

(* Node 1 originates: TCs only, or HELLOs and TCs. *)
TcOf1(g, churn, loss) ==
    [graph |-> g, hello |-> {}, tc |-> {1}, limit |-> 1, cap |-> 4,
     churn |-> churn, loss |-> loss]
MixOf1(g, loss) ==
    [graph |-> g, hello |-> {1}, tc |-> {1}, limit |-> 2, cap |-> 4,
     churn |-> FALSE, loss |-> loss]

(* TCs of several nodes meet at relays whose buffers take one message. *)
Crowded(g, originators) ==
    [graph |-> g, hello |-> {}, tc |-> originators, limit |-> 1, cap |-> 1,
     churn |-> FALSE, loss |-> FALSE]

Sound == {TcOf1(g, FALSE, FALSE) : g \in AllConnected}
Disturbed == {TcOf1(g, TRUE, TRUE) : g \in {Diamond, Kite}}
                \cup {MixOf1(g, TRUE) : g \in {Line, Kite}}
Full == {Crowded(LongLine, {1, 4}), Crowded(Star, {1, 2})}

(* HELLOs and TCs share packets and sequence numbers, and nothing is lost. *)
Shared == {MixOf1(g, FALSE) : g \in {LongLine, Star, Diamond \cup Both({<<4, 5>>})}}
AllScenarios == Sound \cup Disturbed \cup Full \cup Shared
Mixed == {MixOf1(Couple, FALSE)}
=============================================================================
