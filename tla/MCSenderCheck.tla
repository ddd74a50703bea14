--------------------------- MODULE MCSenderCheck ---------------------------
(***************************************************************************)
(* An instance of SenderCheck for TLC: two messages, two connections, two  *)
(* refusals, sets of bounds taken together.  At most one message is cut    *)
(* short at a time, so that the order of the lines about them is no choice *)
(* and the messages, connections, refusals and texts are alike.            *)
(***************************************************************************)
EXTENDS SenderCheck

Alike == Permutations(Msg) \cup Permutations(Conn) \cup Permutations(Refusal)
         \cup Permutations(Texts)

Own == [local |-> "a", ext |-> NoExt, domain |-> "d"]
Tagged == [Own EXCEPT !.ext = "x"]
AllOfD == [Own EXCEPT !.local = AnyLocal]

\* The domain is l2's, an address of it l1's; or the domain is both's.
Bound == [k \in {Own, AllOfD} |-> IF k = Own THEN {"l1"} ELSE {"l2"}]
Wide == [k \in {AllOfD} |-> {"l1", "l2"}]
MCTables == {Bound, Wide}

MCMails ==
    {[login |-> "l2", from |-> <<Tagged>>, sender |-> <<>>],
     [login |-> "l1", from |-> <<Tagged>>, sender |-> <<Own>>],
     [login |-> "l1", from |-> <<>>, sender |-> <<>>]}

Budget(m, c, r, w, s, f) ==
    [msg |-> m, conn |-> c, refusal |-> r, rewrite |-> w, stop |-> s, fail |-> f]
MCBudgets ==
    {Budget(1, 0, 0, 4, 0, 0), Budget(2, 0, 0, 0, 2, 1), Budget(1, 0, 0, 0, 3, 1),
     Budget(1, 0, 1, 0, 2, 1), Budget(1, 1, 0, 0, 2, 1), Budget(0, 2, 0, 0, 2, 1),
     Budget(0, 0, 2, 0, 2, 1)}
=============================================================================
