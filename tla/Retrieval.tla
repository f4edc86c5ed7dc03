----------------------------- MODULE Retrieval -----------------------------
(***************************************************************************)
(* How a search of the thoughts makes one list of two (vault/search.go):   *)
(* the lexical and the dense channel each rank documents, reciprocal rank  *)
(* fusion orders them all, and a document that either channel ranks among  *)
(* its best is admitted even when fusion left it out.                      *)
(*                                                                         *)
(* Scores are fractions 1/(K + rank); they are compared exactly, by cross  *)
(* multiplication.                                                         *)
(***************************************************************************)
EXTENDS Integers, Sequences, SequencesExt, Functions, FiniteSets

CONSTANTS
    Doc,           \* documents, numbered in path order
    K,             \* rrfK
    ChannelTop,    \* channelTop
    MaxLimit       \* maxLimit

RetrievalAssumption ==
    /\ Doc \subseteq Nat /\ IsFiniteSet(Doc)
    /\ {K, ChannelTop, MaxLimit} \subseteq Nat \ {0}

VARIABLES
    lexical, dense,   \* what the channels rank, best first
    limit,            \* how many the caller asks for
    answer            \* the hits
retrievalVars == <<lexical, dense, limit, answer>>

\* A channel ranks a document once.
Rankings == {list \in SeqOf(Doc, Cardinality(Doc)) : IsInjective(list)}

-----------------------------------------------------------------------------
(* Fusion. *)

In(list, e) == e \in ToSet(list)
Rank(list, e) == CHOOSE i \in DOMAIN list : list[i] = e

\* Mutant: the denominator forgets what was there before.
ScoreOfBest(e) ==
    [num |-> 1, den |-> K + (IF In(lexical, e) THEN Rank(lexical, e) ELSE Rank(dense, e))]

\* score[e]: the sum over the channels that rank e
Score(e) ==
    LET a == K + Rank(lexical, e)
        b == K + Rank(dense, e)
    IN IF In(lexical, e) /\ In(dense, e) THEN [num |-> a + b, den |-> a * b]
       ELSE [num |-> 1, den |-> IF In(lexical, e) THEN a ELSE b]

Above(x, y) == x.num * y.den > y.num * x.den

\* the lexical rank that breaks a tie; unranked comes last
LexOrder(e) == IF In(lexical, e) THEN Rank(lexical, e) ELSE Len(lexical) + 1

Before(a, b) ==
    \/ Above(Score(a), Score(b))
    \/ /\ ~Above(Score(b), Score(a))
       /\ \/ LexOrder(a) < LexOrder(b)
          \/ LexOrder(a) = LexOrder(b) /\ a < b

\* rrfOrder: every document either channel ranks, best first; fused is its place there
Ranked == ToSet(lexical) \cup ToSet(dense)
Fused(e) == Cardinality({d \in Ranked : d = e \/ Before(d, e)})
RRFOrder == [i \in 1 .. Cardinality(Ranked) |-> CHOOSE e \in Ranked : Fused(e) = i]

\* The k-th of some numbers, in their order.
Nth(numbers, k) == CHOOSE n \in numbers : Cardinality({m \in numbers : m <= n}) = k

EntriesOf(out) == {out[i].entry : i \in DOMAIN out}
TopOf(list, n) == {i \in DOMAIN list : i <= n}

\* admit: the first n of a list, but for those already in
Admit(out, list, n, by) ==
    LET new == {i \in TopOf(list, n) : list[i] \notin EntriesOf(out)}
    IN  out \o [k \in 1 .. Cardinality(new) |->
                  LET e == list[Nth(new, k)] IN [entry |-> e, fused |-> Fused(e), by |-> by]]

\* Mutant: only the lexical channel's best are let in.
FuseLexicalOnly == Admit(Admit(<< >>, RRFOrder, limit, "rrf"), lexical, ChannelTop, "bm25_top")

Fuse ==
    Admit(Admit(Admit(<< >>, RRFOrder, limit, "rrf"), lexical, ChannelTop, "bm25_top"),
          dense, ChannelTop, "dense_top")

-----------------------------------------------------------------------------
(* One search: the channels answer, and the hits are chosen. *)

Init ==
    /\ lexical \in Rankings /\ dense \in Rankings /\ limit \in 1..MaxLimit
    /\ answer = << >>

Search ==
    /\ answer = << >> /\ Ranked # {}
    /\ answer' = Fuse
    /\ UNCHANGED <<lexical, dense, limit>>

Next == Search
Spec == Init /\ [][Next]_retrievalVars

-----------------------------------------------------------------------------
(* Properties. *)

Answered == answer # << >>

\* Agreement outranks a win in a single channel: a document that both channels rank among
\* their first K + 1 stands above every document that only one of them found.
FoundByBoth(e)  == In(lexical, e) /\ In(dense, e)
AgreedOn(e)     == FoundByBoth(e) /\ Rank(lexical, e) <= K + 1 /\ Rank(dense, e) <= K + 1
AgreementFirst ==
    \A i, j \in DOMAIN answer :
        AgreedOn(answer[i].entry) /\ ~FoundByBoth(answer[j].entry) => answer[i].fused < answer[j].fused

\* A document among the best of either channel reaches the reader, no document
\* reaches them twice, and one that fusion puts within the limit is never
\* crowded out by one it does not.
BestOfEitherShown ==
    Answered =>
       /\ \A i \in TopOf(lexical, ChannelTop) : lexical[i] \in EntriesOf(answer)
       /\ \A i \in TopOf(dense, ChannelTop) : dense[i] \in EntriesOf(answer)
       /\ \A i, j \in DOMAIN answer : answer[i].entry = answer[j].entry => i = j
       /\ \A i \in DOMAIN answer : i <= limit => answer[i].fused = i
       /\ Len(answer) <= limit + 2 * ChannelTop
=============================================================================
