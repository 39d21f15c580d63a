------------------------------ MODULE MCServer ------------------------------
(* Instances of Server: a few queries and batches, and a request of every    *)
(* kind for the transport.                                                    *)
EXTENDS Server, TLC

-----------------------------------------------------------------------------
(* Answers *)

Fq(mode, hits, defs, named, meant, k) ==
    [kind |-> "fused", mode |-> mode, hits |-> hits, defs |-> defs, named |-> named,
     meant |-> meant, exact |-> {}, ident |-> FALSE, near |-> <<>>, outside |-> FALSE, k |-> k]
\* An identifier: all it defines exactly has its name, and so do the others.
Name(query, others) ==
    [query EXCEPT !.ident = TRUE, !.exact = others \cup {d.span : d \in {e \in query.defs : e.quality = 0}}]
Typo(near) == [Fq("auto", <<>>, {}, <<>>, <<>>, 2) EXCEPT !.ident = TRUE, !.near = near]
Def(s, q) == [span |-> s, quality |-> q]
MCQueries ==
    { Name(Fq("auto", <<1, 1, 2, 5, 5>>, {Def(2, 0), Def(3, 1)}, <<>>, <<4>>, 4), {}),
      Fq("auto", <<3, 3, 4>>, {Def(4, 0), Def(1, 1)}, <<>>, <<>>, 3),
      Fq("auto", <<5, 4>>, {Def(1, 2)}, <<3>>, <<2, 4>>, 1),
      Name(Fq("auto", <<>>, {}, <<>>, <<5, 1>>, 3), {4}),
      Typo(<<[span |-> 2, score |-> 9], [span |-> 4, score |-> 8]>>),
      [Typo(<<>>) EXCEPT !.outside = TRUE],
      Fq("lexical", <<2, 1, 1, 2, 1, 4, 4>>, {Def(5, 0)}, <<>>, <<>>, 3),
      Fq("structural", <<1>>, {Def(5, 0), Def(4, 2), Def(3, 1)}, <<>>, <<>>, 3),
      [kind |-> "list", ident |-> FALSE, near |-> <<>>, outside |-> FALSE, k |-> 3,
       list |-> <<[span |-> 3, score |-> 10 * Unit], [span |-> 5, score |-> 9 * Unit]>>] }
MCBatches == {<<a>> : a \in MCQueries} \cup {<<a, b>> : a, b \in MCQueries}
MCCost == <<1, 2, 3, 4, 2>>
MCFileOf == <<"a", "a", "a", "b", "b">>

ASSUME MCListsAreShort == ListsAreShort

-----------------------------------------------------------------------------
(* Transport: a request that runs, and one for every way not to run *)

Call == [post |-> TRUE, token |-> TRUE, json |-> TRUE, id |-> TRUE, method |-> "call"]

MCRequests ==
    { Call, [Call EXCEPT !.post = FALSE], [Call EXCEPT !.token = FALSE],
      [Call EXCEPT !.json = FALSE], [Call EXCEPT !.id = FALSE],
      [Call EXCEPT !.method = "other"], [Call EXCEPT !.post = FALSE, !.token = FALSE] }

-----------------------------------------------------------------------------
\* What is not the subject rests in one of its initial states.
MCServerInit ==
    /\ ServerInit
    /\ subject # "session" => problems = {}
    /\ subject # "transport" => \A c \in Clients : sends[c] = Call

MCServerSpec == MCServerInit /\ [][ServerStep]_serverVars /\ ServerFairness

=============================================================================
