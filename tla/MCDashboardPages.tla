-------------------------- MODULE MCDashboardPages --------------------------
(* DashboardPages for TLC: two of everything that can be mixed up.          *)
EXTENDS DashboardPages

OlderPage == <<1>>
NewerPage == <<2>>
PageLinks == <<"/", "/chat", "/usage">>
OwnerLinks == <<"/admin", "/console">>
LimitOf == [auth |-> 1, v1 |-> 2]
TwoBudgets == [free |-> <<7, 20>>, nomad |-> <<14, 40>>]
SomeUse == {[daily |-> d, weekly |-> w, monthly |-> m] :
              <<d, w, m>> \in {<<0, 2, 14>>, <<1, 2, 14>>, <<2, 2, 14>>, <<0, 7, 14>>,
                              <<0, 14, 14>>, <<0, 2, 20>>, <<2, 14, 40>>}}
Lines == {[text |-> 2, usage |-> 0], [text |-> 0, usage |-> 5],
          [text |-> 3, usage |-> 7], [text |-> 0, usage |-> 0]}
SomeZones == {-1, 0, 2}
TwoDays == {<<[date |-> 1, requests |-> q, tokens |-> 3 * q],
              [date |-> d, requests |-> r, tokens |-> 4 * r]>> :
              q \in {0, 1}, d \in {2, 8}, r \in {0, 5}}
ThreeCells == {<<1, 0>>, <<1, 23>>, <<5, 4>>}
SomeQuotas == {<<0, 100>>, <<99, 100>>, <<199, 200>>, <<100, 100>>, <<130, 100>>,
               <<5, 0>>}
SomeKeys == {<<>>,
             <<[active |-> FALSE, text |-> "x1"], [active |-> TRUE, text |-> "x2"]>>,
             <<[active |-> FALSE, text |-> "x1"]>>,
             <<[active |-> TRUE, text |-> ""], [active |-> TRUE, text |-> "x2"]>>}
ShortStories == UNION {[1..n -> Lines] : n \in 1..3}
=============================================================================
