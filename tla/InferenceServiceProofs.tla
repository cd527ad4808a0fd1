------------------------ MODULE InferenceServiceProofs ------------------------
(***************************************************************************)
(* Proofs about the inference service, for any queries, documents, chunks, *)
(* tenants and settings: types, what an answer holds and leaves out, what  *)
(* Shutdown waits for, and which assignment of a variable counts.          *)
(***************************************************************************)
EXTENDS InferenceService, SelectionProofs

Stages == {"idle", "handler", "embed", "search", "ended"}

Codes == {0, 200, 400, 500}

Requests == [stage : Stages, body : Bodies \cup {NoBody}, code : Codes,
             found : Seq(Chunks), late : BOOLEAN]

StateTypes ==
  /\ req \in [Queries -> Requests]
  /\ before \in [Queries -> SUBSET Chunks]
  /\ committed \subseteq Chunks
  /\ server \in {"stopped", "serving", "draining", "closed", "exited"}
  /\ database \in BOOLEAN /\ expired \in BOOLEAN

\* The pool is open while the server serves or drains, and a request is active only
\* then, or in a process whose Shutdown gave up.
ProcessInv ==
  /\ database <=> server \in {"serving", "draining"}
  /\ Active # {} => \/ server \in {"serving", "draining"}
                    \/ server = "closed" /\ expired

\* Transactions commit documents whole.
CommitsWhole ==
  \A c, d \in Chunks : c \in committed /\ DocOf[c] = DocOf[d] => d \in committed

\* A query that has come further than its decoding has a body, and what was
\* committed when it came is still there.
RequestInv(q) ==
  /\ req[q].stage \in {"handler", "embed", "search"} \/ req[q].code = 200
       => req[q].body \in Bodies
  /\ req[q].code # 200 => req[q].found = << >>
  /\ req[q].code = 200 => req[q].stage = "ended"
  /\ before[q] \subseteq committed

\* What is true of an answer, from the moment it is given.
AnswerInv(q) ==
  req[q].code = 200 =>
    LET fits(c) == /\ Similarity[c] >= MinSimilarity(q)
                   /\ req[q].body.tenant \in {NoTenant, Tenant[DocOf[c]]}
    IN /\ \A c \in Found(q) : fits(c)
       /\ \A c \in before[q] \ Found(q) : fits(c) =>
            /\ Len(req[q].found) = TopK(q)
            /\ \A d \in Found(q) : Similarity[d] >= Similarity[c]
       /\ Len(req[q].found) < TopK(q) =>
            \A c, d \in Chunks : c \in Found(q) /\ DocOf[c] = DocOf[d]
                                   /\ Similarity[d] >= Similarity[c] => d \in Found(q)

\* A process that serves has every setting it requires.
SettingsInv ==
  /\ boot \in {"dotenv", "configured", "failed"}
  /\ boot = "configured" =>
       \A v \in Required : env[v] # Unset /\ ~(v \in Parsed /\ env[v] \in Unparsable)
  /\ server = "serving" => boot = "configured"

\* The scanner has gone past the line p[2] of the file p[1].
Read(p) == p[1] < fileAt \/ (p[1] = fileAt /\ p[2] < lineAt)

\* Of what the scanner has gone past, the first assignment of v has counted.
FirstRead(v) ==
  /\ inherited[v] # Unset => env[v] = inherited[v]
  /\ inherited[v] = Unset /\ env[v] = Unset => \A p \in Assignments(v) : ~Read(p)
  /\ inherited[v] = Unset /\ env[v] # Unset =>
       \E p \in Assignments(v) : /\ Read(p) /\ env[v] = files[p[1]][p[2]].value
                                 /\ \A r \in Assignments(v) : ~Earlier(r, p)

Lines == [key : Variables, value : Values \cup {Unset}]

DotEnvInv ==
  boot = "dotenv" =>
    /\ files \in Seq(Seq(Lines)) /\ fileAt \in Nat \ {0} /\ lineAt \in Nat \ {0}
    /\ env \in [Variables -> Values \cup {Unset}]
    /\ \A v \in Variables : FirstRead(v)

ServiceInv ==
  /\ StateTypes /\ ProcessInv /\ CommitsWhole /\ SettingsInv
  /\ \A q \in Queries : RequestInv(q) /\ AnswerInv(q)

-----------------------------------------------------------------------------
(* The search. *)

LEMMA MatchesFinite ==
  ASSUME NEW q, committed \subseteq Chunks
  PROVE  /\ Matches(q) \in SUBSET Chunks /\ IsFiniteSet(Matches(q))
         /\ Cardinality(Matches(q)) \in Nat
<1>1. Matches(q) \in SUBSET Chunks  BY DEF Matches
<1>2. IsFiniteSet(Matches(q))  BY <1>1, FS_Subset, InferenceAssumption
<1> QED  BY <1>1, <1>2, FS_CardinalityType

\* SELECT ... ORDER BY distance LIMIT k returns matches, no more than k, all of them
\* when there are fewer, and none less like the query than one it leaves out.
LEMMA LimitedSpec ==
  ASSUME NEW q, committed \subseteq Chunks, TopK(q) \in Nat,
         NEW t \in Ordered(q), NEW s, s = Limited(q, t)
  PROVE  /\ s \in Seq(Chunks)
         /\ \A k \in DOMAIN s : s[k] \in Matches(q)
         /\ \A c \in Matches(q) : \/ \E k \in DOMAIN s : s[k] = c
                                  \/ /\ Len(s) = TopK(q)
                                     /\ \A k \in DOMAIN s : Similarity[s[k]] >= Similarity[c]
<1> DEFINE M == Matches(q)
           n == Cardinality(M)
           m == IF TopK(q) < n THEN TopK(q) ELSE n
<1>1. M \in SUBSET Chunks /\ n \in Nat  BY MatchesFinite
<1>2. /\ t \in [1 .. n -> M]
      /\ \A c \in M : \E k \in 1 .. n : t[k] = c
      /\ \A j, k \in 1 .. n : j < k => Similarity[t[j]] >= Similarity[t[k]]
  BY DEF Ordered, Bijection, Injection, Surjection
<1> HIDE DEF M, n
<1>3. m \in Nat /\ m <= n /\ (m < n => m = TopK(q))  BY <1>1
<1>4. {k \in DOMAIN t : k <= TopK(q)} = 1 .. m  BY <1>1, <1>2
<1> HIDE DEF m
<1>5. s = [k \in 1 .. m |-> t[k]]  BY <1>4 DEF Limited, Restrict
<1>6. \A k \in 1 .. m : k \in 1 .. n /\ s[k] = t[k] /\ s[k] \in M  BY <1>1, <1>2, <1>3, <1>5
<1>7. DOMAIN s = 1 .. m /\ Len(s) = m /\ s \in Seq(Chunks)
  <2>1. \A k \in 1 .. m : t[k] \in Chunks  BY <1>1, <1>6
  <2> QED  BY <1>3, <1>5, <2>1
<1>8. ASSUME NEW c \in M, ~\E k \in DOMAIN s : s[k] = c
      PROVE  Len(s) = TopK(q) /\ \A k \in DOMAIN s : Similarity[s[k]] >= Similarity[c]
  <2>1. PICK r \in 1 .. n : t[r] = c  BY <1>2
  <2>2. r > m  BY <1>1, <1>3, <1>6, <1>7, <1>8, <2>1
  <2>3. m < n  BY <1>1, <1>3, <2>2
  <2>4. ASSUME NEW k \in 1 .. m PROVE Similarity[s[k]] >= Similarity[c]
    <3>1. k < r  BY <1>1, <1>3, <2>2
    <3> QED  BY <1>2, <1>6, <2>1, <3>1
  <2> QED  BY <1>3, <1>7, <2>3, <2>4
<1> QED  BY <1>6, <1>7, <1>8 DEF M

\* A set of n chunks can be put in order.
LEMMA OneMore ==
  ASSUME NEW S, IsFiniteSet(S), NEW L \in [S -> Nat], NEW n \in Nat,
         Cardinality(S) = n + 1,
         \A R \in SUBSET S : Cardinality(R) = n =>
           \E f \in Bijection(1 .. n, R) : \A j, k \in 1 .. n : j < k => L[f[j]] >= L[f[k]]
  PROVE  \E f \in Bijection(1 .. n + 1, S) :
           \A j, k \in 1 .. n + 1 : j < k => L[f[j]] >= L[f[k]]
<1>1. S # {}  BY FS_EmptySet
<1>2. PICK x \in S : \A y \in S : L[x] <= L[y]
  <2> DEFINE V == {L[y] : y \in S}
  <2>1. V \subseteq Nat /\ V # {}  BY <1>1
  <2>2. PICK v \in V : \A w \in V : v <= w  BY <2>1, NatMin
  <2> QED  BY <2>2
<1>3. Cardinality(S \ {x}) = n
  <2>1. Cardinality(S \ {x}) = Cardinality(S) - 1  BY <1>2, FS_RemoveElement
  <2> QED  BY <2>1
<1>4. PICK f \in Bijection(1 .. n, S \ {x}) :
        \A j, k \in 1 .. n : j < k => L[f[j]] >= L[f[k]]
  BY <1>3
<1>5. /\ f \in [1 .. n -> S \ {x}]
      /\ \A j, k \in 1 .. n : f[j] = f[k] => j = k
      /\ \A y \in S \ {x} : \E k \in 1 .. n : f[k] = y
  BY DEF Bijection, Injection, Surjection, IsInjective
<1> DEFINE g == [k \in 1 .. n + 1 |-> IF k <= n THEN f[k] ELSE x]
<1>6. /\ \A k \in 1 .. n : k \in 1 .. n + 1 /\ g[k] = f[k]
      /\ n + 1 \in 1 .. n + 1 /\ g[n + 1] = x
      /\ \A k \in 1 .. n + 1 : k \in 1 .. n \/ k = n + 1
  OBVIOUS
<1>7. g \in [1 .. n + 1 -> S]  BY <1>5
<1> HIDE DEF g
<1>8. \A j, k \in 1 .. n + 1 : g[j] = g[k] => j = k  BY <1>5, <1>6
<1>9. \A y \in S : \E k \in 1 .. n + 1 : g[k] = y  BY <1>5, <1>6
<1>10. ASSUME NEW j \in 1 .. n + 1, NEW k \in 1 .. n + 1, j < k PROVE L[g[j]] >= L[g[k]]
  <2>1. j \in 1 .. n  BY <1>10
  <2>2. CASE k \in 1 .. n  BY <1>4, <1>6, <1>10, <2>1, <2>2
  <2>3. CASE k = n + 1
    <3>1. g[j] \in S /\ g[k] = x /\ L[g[j]] \in Nat /\ L[x] \in Nat  BY <1>6, <1>7, <2>3
    <3> QED  BY <1>2, <3>1
  <2> QED  BY <1>6, <2>2, <2>3
<1>11. g \in Bijection(1 .. n + 1, S)
  BY <1>7, <1>8, <1>9 DEF Bijection, Injection, Surjection, IsInjective
<1> QED  BY <1>10, <1>11

LEMMA OrderExists ==
  ASSUME NEW S, IsFiniteSet(S), NEW L \in [S -> Nat]
  PROVE  \E f \in Bijection(1 .. Cardinality(S), S) :
           \A j, k \in 1 .. Cardinality(S) : j < k => L[f[j]] >= L[f[k]]
<1> DEFINE Good(m) == \A R \in SUBSET S : Cardinality(R) = m =>
             \E f \in Bijection(1 .. m, R) : \A j, k \in 1 .. m : j < k => L[f[j]] >= L[f[k]]
           n == Cardinality(S)
           A == {m \in 0 .. n : Good(m)}
<1>1. n \in Nat  BY FS_CardinalityType
<1>2. Good(0)
  <2> SUFFICES ASSUME NEW R \in SUBSET S, Cardinality(R) = 0
               PROVE  \E f \in Bijection(1 .. 0, R) :
                        \A j, k \in 1 .. 0 : j < k => L[f[j]] >= L[f[k]]
    OBVIOUS
  <2>1. IsFiniteSet(R)  BY FS_Subset
  <2>2. R = {}  BY <2>1, FS_EmptySet
  <2> DEFINE f == [k \in 1 .. 0 |-> k]
  <2>3. 1 .. 0 = {}  OBVIOUS
  <2>4. f \in Bijection(1 .. 0, R)
    BY <2>2, <2>3 DEF Bijection, Injection, Surjection, IsInjective
  <2> QED  BY <2>3, <2>4
<1>3. ASSUME NEW k \in 1 .. n, Good(k - 1) PROVE Good(k)
  <2> SUFFICES ASSUME NEW R \in SUBSET S, Cardinality(R) = k
               PROVE  \E f \in Bijection(1 .. k, R) :
                        \A i, j \in 1 .. k : i < j => L[f[i]] >= L[f[j]]
    OBVIOUS
  <2> DEFINE K == [c \in R |-> L[c]]
             p == k - 1
  <2>1. p \in Nat /\ p + 1 = k  BY <1>1
  <2>2. IsFiniteSet(R) /\ K \in [R -> Nat] /\ \A c \in R : K[c] = L[c]  BY FS_Subset
  <2>3. Good(p)  BY <1>3
  <2> HIDE DEF p, K
  <2>4. ASSUME NEW Q \in SUBSET R, Cardinality(Q) = p
        PROVE  \E f \in Bijection(1 .. p, Q) :
                 \A i, j \in 1 .. p : i < j => K[f[i]] >= K[f[j]]
    <3>1. PICK f \in Bijection(1 .. p, Q) :
            \A i, j \in 1 .. p : i < j => L[f[i]] >= L[f[j]]
      BY <2>3, <2>4
    <3>2. \A i \in 1 .. p : f[i] \in R  BY DEF Bijection, Injection
    <3> QED  BY <2>2, <3>1, <3>2
  <2>5. \A Q \in SUBSET R : Cardinality(Q) = p =>
          \E f \in Bijection(1 .. p, Q) :
            \A i, j \in 1 .. p : i < j => K[f[i]] >= K[f[j]]
    BY <2>4
  <2>6. Cardinality(R) = p + 1  BY <2>1
  <2>7. PICK f \in Bijection(1 .. p + 1, R) :
          \A i, j \in 1 .. p + 1 : i < j => K[f[i]] >= K[f[j]]
    BY <2>1, <2>2, <2>5, <2>6, OneMore
  <2>8. \A i \in 1 .. p + 1 : f[i] \in R  BY DEF Bijection, Injection
  <2> QED  BY <2>1, <2>2, <2>7, <2>8
<1>4. 0 \in A /\ A \in SUBSET (0 .. n)  BY <1>1, <1>2
<1>5. \A k \in 1 .. n : k - 1 \in A => k \in A  BY <1>1, <1>3
<1> HIDE DEF A, n, Good
<1>6. A = 0 .. n  BY <1>1, <1>4, <1>5, UpTheNumbers
<1>7. Good(n)  BY <1>1, <1>6 DEF A
<1> QED  BY <1>7 DEF Good, n

\* SearchSimilarVectors: whatever is committed, there is an order for ORDER BY, so that
\* a query always has an answer.
THEOREM AnswerExists ==
  ASSUME NEW q, committed \subseteq Chunks, MinSimilarity(q) \in Nat
  PROVE  Ordered(q) # {}
<1> DEFINE L == [c \in Matches(q) |-> Similarity[c]]
           n == Cardinality(Matches(q))
<1>1. IsFiniteSet(Matches(q)) /\ Matches(q) \in SUBSET Chunks  BY MatchesFinite
<1>2. \A c \in Matches(q) : Similarity[c] \in Nat
  <2>1. \A c \in Matches(q) : Similarity[c] \in Int /\ Similarity[c] >= MinSimilarity(q)
    BY <1>1, InferenceAssumption DEF Matches
  <2> QED  BY <2>1
<1>3. L \in [Matches(q) -> Nat] /\ \A c \in Matches(q) : L[c] = Similarity[c]  BY <1>2
<1> HIDE DEF L
<1>4. PICK f \in Bijection(1 .. n, Matches(q)) :
        \A j, k \in 1 .. n : j < k => L[f[j]] >= L[f[k]]
  BY <1>1, <1>3, OrderExists
<1>5. f \in [1 .. n -> Matches(q)]  BY DEF Bijection, Injection
<1>6. \A j, k \in 1 .. n : j < k => Similarity[f[j]] >= Similarity[f[k]]  BY <1>3, <1>4, <1>5
<1> QED  BY <1>5, <1>6 DEF Ordered

-----------------------------------------------------------------------------
(* What a call makes of the requests. *)

LEMMA Answered ==
  ASSUME StateTypes, NEW q \in Queries, NEW code \in Codes, NEW found \in Seq(Chunks),
         Answer(q, code, found)
  PROVE  /\ req' \in [Queries -> Requests]
         /\ \A p \in Queries \ {q} : req'[p] = req[p]
         /\ req'[q].stage = "ended" /\ req'[q].body = req[q].body
         /\ \/ req'[q].code = code /\ req'[q].found = found
            \/ req'[q].code = 0 /\ req'[q].found = << >>
<1> DEFINE r == req[q]
           c == IF r.late THEN 0 ELSE code
           f == IF r.late THEN << >> ELSE found
           x == [[[r EXCEPT !.stage = "ended"] EXCEPT !.code = c] EXCEPT !.found = f]
<1>1. r \in Requests  BY DEF StateTypes
<1>2. /\ c \in Codes /\ f \in Seq(Chunks) /\ "ended" \in Stages
      /\ (c = code /\ f = found) \/ (c = 0 /\ f = << >>)
  BY DEF Codes, Stages
<1>3. req' = [req EXCEPT ![q] = x]  BY DEF Answer, StateTypes
<1> HIDE DEF c, f, r
<1>4. /\ x \in Requests /\ x.stage = "ended" /\ x.body = r.body /\ x.code = c /\ x.found = f
  BY <1>1, <1>2 DEF Requests
<1> HIDE DEF x
<1>5. /\ req' \in [Queries -> Requests] /\ req'[q] = x
      /\ \A p \in Queries \ {q} : req'[p] = req[p]
  BY <1>3, <1>4 DEF StateTypes
<1> QED  BY <1>2, <1>4, <1>5 DEF r

LEMMA Went ==
  ASSUME StateTypes, NEW q \in Queries, NEW stage \in Stages, Goto(q, stage)
  PROVE  /\ req' \in [Queries -> Requests]
         /\ \A p \in Queries \ {q} : req'[p] = req[p]
         /\ req'[q] = [req[q] EXCEPT !.stage = stage]
         /\ req'[q].stage = stage /\ req'[q].body = req[q].body
         /\ req'[q].code = req[q].code /\ req'[q].found = req[q].found
<1> DEFINE x == [req[q] EXCEPT !.stage = stage]
<1>1. req[q] \in Requests  BY DEF StateTypes
<1>2. /\ x \in Requests /\ x.stage = stage /\ x.body = req[q].body
      /\ x.code = req[q].code /\ x.found = req[q].found
  BY <1>1 DEF Requests
<1>3. req' = [req EXCEPT ![q] = x]  BY DEF Goto, StateTypes
<1> QED  BY <1>2, <1>3 DEF StateTypes

LEMMA Delayed ==
  ASSUME StateTypes, NEW q \in Queries, DeadlinePasses(q)
  PROVE  /\ req' \in [Queries -> Requests]
         /\ \A p \in Queries \ {q} : req'[p] = req[p]
         /\ req'[q].stage = req[q].stage /\ req'[q].body = req[q].body
         /\ req'[q].code = req[q].code /\ req'[q].found = req[q].found
<1> DEFINE x == [req[q] EXCEPT !.late = TRUE]
<1>1. req[q] \in Requests /\ TRUE \in BOOLEAN  BY DEF StateTypes
<1>2. /\ x \in Requests /\ x.stage = req[q].stage /\ x.body = req[q].body
      /\ x.code = req[q].code /\ x.found = req[q].found
  BY <1>1, Zenon DEF Requests
<1>3. req' = [req EXCEPT ![q] = x]  BY DEF DeadlinePasses, StateTypes
<1> HIDE DEF x
<1> QED  BY <1>2, <1>3 DEF StateTypes

LEMMA Accepted ==
  ASSUME StateTypes, NEW q \in Queries, NEW b \in Bodies, Accept(q, b)
  PROVE  /\ req' \in [Queries -> Requests]
         /\ \A p \in Queries \ {q} : req'[p] = req[p] /\ before'[p] = before[p]
         /\ req'[q].stage = "handler" /\ req'[q].body = b
         /\ req'[q].code = req[q].code /\ req'[q].found = req[q].found
         /\ before' \in [Queries -> SUBSET Chunks] /\ before'[q] = committed
<1> DEFINE x == [[req[q] EXCEPT !.stage = "handler"] EXCEPT !.body = b]
<1>1. req[q] \in Requests /\ "handler" \in Stages  BY DEF StateTypes, Stages
<1>2. /\ x \in Requests /\ x.stage = "handler" /\ x.body = b
      /\ x.code = req[q].code /\ x.found = req[q].found
  BY <1>1 DEF Requests
<1>3. req' = [req EXCEPT ![q] = x] /\ before' = [before EXCEPT ![q] = committed]
  BY DEF Accept, StateTypes
<1> HIDE DEF x
<1> QED  BY <1>2, <1>3 DEF StateTypes

\* A handler answers, or goes on to its next call.
LEMMA Handled ==
  ASSUME ServiceInv, NEW q \in Queries, Handle(q)
  PROVE  /\ req[q].stage \in {"handler", "embed", "search"}
         /\ UNCHANGED <<configVars, serverVars, committed, before>>
         /\ \/ \E stage \in {"embed", "search"} : Goto(q, stage)
            \/ \E code \in {400, 500} : Answer(q, code, << >>)
            \/ \E s \in Ordered(q) : At(q, "search") /\ Answer(q, 200, Limited(q, s))
<1>1. CASE HandleQuery(q)  BY <1>1 DEF HandleQuery, At
<1>2. CASE GenerateQueryEmbedding(q)  BY <1>2 DEF GenerateQueryEmbedding, At
<1>3. CASE SearchSimilarVectors(q)  BY <1>3 DEF SearchSimilarVectors, At
<1> QED  BY <1>1, <1>2, <1>3 DEF Handle

-----------------------------------------------------------------------------
(* An answer. *)

\* An answer stays what it was.
LEMMA AnswerKept ==
  ASSUME NEW q \in Queries, AnswerInv(q), req'[q].code = 200 => req[q].code = 200,
         req'[q].body = req[q].body, req'[q].found = req[q].found, before'[q] = before[q]
  PROVE  AnswerInv(q)'
BY DEF AnswerInv, Found, TopK, MinSimilarity

\* The statement of SQL gives an answer that is right when it is given.
LEMMA AnswerGiven ==
  ASSUME ServiceInv, NEW q \in Queries, NEW t \in Ordered(q), NEW s, s = Limited(q, t),
         req[q].body \in Bodies,
         req'[q].body = req[q].body, req'[q].found = s, before'[q] = before[q]
  PROVE  AnswerInv(q)'
<1>1. /\ committed \subseteq Chunks /\ before[q] \subseteq committed
      /\ \A c, d \in Chunks : c \in committed /\ DocOf[c] = DocOf[d] => d \in committed
  BY DEF ServiceInv, StateTypes, RequestInv, CommitsWhole
<1>2. TopK(q) \in Nat /\ MinSimilarity(q) \in Nat
  BY InferenceAssumption DEF TopK, MinSimilarity
<1>3. /\ s \in Seq(Chunks)
      /\ \A k \in DOMAIN s : s[k] \in Matches(q)
      /\ \A c \in Matches(q) : \/ \E k \in DOMAIN s : s[k] = c
                               \/ /\ Len(s) = TopK(q)
                                  /\ \A k \in DOMAIN s : Similarity[s[k]] >= Similarity[c]
  BY <1>1, <1>2, LimitedSpec
<1>4. TopK(q)' = TopK(q) /\ MinSimilarity(q)' = MinSimilarity(q)
  BY DEF TopK, MinSimilarity
<1>5. Found(q)' = {s[k] : k \in DOMAIN s}  BY DEF Found
<1> DEFINE fits(c) == /\ Similarity[c] >= MinSimilarity(q)
                      /\ req[q].body.tenant \in {NoTenant, Tenant[DocOf[c]]}
<1>6. \A c : c \in Matches(q) <=> c \in committed /\ fits(c)  BY DEF Matches
<1> DEFINE F == Found(q)'
<1>7. \A c \in F : c \in committed /\ fits(c)  BY <1>3, <1>5, <1>6
<1>8. ASSUME NEW c \in before[q] \ F, fits(c)
      PROVE  Len(s) = TopK(q) /\ \A d \in F : Similarity[d] >= Similarity[c]
  <2>1. c \in Matches(q) /\ ~\E k \in DOMAIN s : s[k] = c  BY <1>1, <1>5, <1>6, <1>8
  <2> QED  BY <1>3, <1>5, <2>1
<1>9. ASSUME Len(s) < TopK(q), NEW c \in Chunks, NEW d \in Chunks, c \in F,
             DocOf[c] = DocOf[d], Similarity[d] >= Similarity[c]
      PROVE  d \in F
  <2>1. c \in committed /\ fits(c)  BY <1>7, <1>9
  <2>2. d \in committed  BY <1>1, <1>9, <2>1
  <2>3. Similarity[c] \in Int /\ Similarity[d] \in Int  BY InferenceAssumption
  <2>4. fits(d)  BY <1>2, <1>9, <2>1, <2>3
  <2>5. d \in Matches(q)  BY <1>6, <2>2, <2>4
  <2>6. Len(s) # TopK(q)  BY <1>2, <1>3, <1>9
  <2> QED  BY <1>3, <1>5, <2>5, <2>6
<1> HIDE DEF fits, F
<1>10. AnswerInv(q)' <=>
         (req'[q].code = 200 =>
            /\ \A c \in F : fits(c)
            /\ \A c \in before[q] \ F : fits(c) =>
                 Len(s) = TopK(q) /\ \A d \in F : Similarity[d] >= Similarity[c]
            /\ Len(s) < TopK(q) =>
                 \A c, d \in Chunks : c \in F /\ DocOf[c] = DocOf[d]
                                        /\ Similarity[d] >= Similarity[c] => d \in F)
  BY <1>4 DEF AnswerInv, fits, F
<1> QED  BY <1>7, <1>8, <1>9, <1>10

-----------------------------------------------------------------------------
(* ServiceInv holds at the start, and every step keeps it. *)

LEMMA ServiceStarts == Init => ServiceInv
<1> SUFFICES ASSUME Init PROVE ServiceInv
  OBVIOUS
<1>1. /\ server = "stopped" /\ database = FALSE /\ expired = FALSE /\ committed = {}
      /\ boot = "dotenv"
      /\ req = [q \in Queries |-> NoRequest] /\ before = [q \in Queries |-> {}]
  BY DEF Init, ConfigInit
<1>2. NoRequest \in Requests
  <2>1. "idle" \in Stages /\ 0 \in Codes /\ << >> \in Seq(Chunks) /\ FALSE \in BOOLEAN
    BY DEF Stages, Codes
  <2> QED  BY <2>1, Zenon DEF NoRequest, Requests
<1>3. \A q \in Queries : /\ req[q].stage = "idle" /\ req[q].code = 0 /\ req[q].found = << >>
                         /\ before[q] = {}
  BY <1>1 DEF NoRequest
<1>4. StateTypes  BY <1>1, <1>2 DEF StateTypes
<1>5. ProcessInv  BY <1>1, <1>3 DEF ProcessInv, Active
<1>6. CommitsWhole  BY <1>1 DEF CommitsWhole
<1>7. SettingsInv  BY <1>1 DEF SettingsInv
<1>8. \A q \in Queries : RequestInv(q) /\ AnswerInv(q)
  BY <1>1, <1>3 DEF RequestInv, AnswerInv
<1> QED  BY <1>4, <1>5, <1>6, <1>7, <1>8 DEF ServiceInv

LEMMA AcceptKeeps ==
  ASSUME ServiceInv, NEW q \in Queries, NEW b \in Bodies, Accept(q, b)
  PROVE  ServiceInv'
<1>1. /\ StateTypes /\ ProcessInv /\ CommitsWhole /\ SettingsInv
      /\ \A p \in Queries : RequestInv(p) /\ AnswerInv(p)
  BY DEF ServiceInv
<1>2. /\ server \in {"serving", "draining"} \/ (server = "closed" /\ expired)
      /\ req[q].stage = "idle"
      /\ UNCHANGED <<boot, env, server, database, expired, committed>>
  BY DEF Accept, At, serverVars, configVars
<1>3. /\ req' \in [Queries -> Requests]
      /\ \A p \in Queries \ {q} : req'[p] = req[p] /\ before'[p] = before[p]
      /\ req'[q].stage = "handler" /\ req'[q].body = b
      /\ req'[q].code = req[q].code /\ req'[q].found = req[q].found
      /\ before' \in [Queries -> SUBSET Chunks] /\ before'[q] = committed
  BY <1>1, Accepted
<1>4. StateTypes' /\ CommitsWhole' /\ SettingsInv'
  BY <1>1, <1>2, <1>3 DEF StateTypes, CommitsWhole, SettingsInv
<1>5. ProcessInv'  BY <1>1, <1>2 DEF ProcessInv
<1>6. ASSUME NEW p \in Queries PROVE RequestInv(p)' /\ AnswerInv(p)'
  <2>1. CASE p = q
    <3>1. req[q].code # 200  BY <1>1, <1>2 DEF RequestInv
    <3> QED  BY <1>1, <1>2, <1>3, <2>1, <3>1 DEF RequestInv, AnswerInv
  <2>2. CASE p # q
    <3>1. req'[p] = req[p] /\ before'[p] = before[p]  BY <1>3, <2>2
    <3>2. AnswerInv(p)'  BY <1>1, <3>1, AnswerKept
    <3> QED  BY <1>1, <1>2, <3>1, <3>2 DEF RequestInv
  <2> QED  BY <2>1, <2>2
<1> QED  BY <1>4, <1>5, <1>6 DEF ServiceInv

\* A step of one request, which leaves it active only if it was.
LEMMA RequestKeeps ==
  ASSUME ServiceInv, NEW q \in Queries, req' \in [Queries -> Requests],
         UNCHANGED <<boot, env, server, database, expired, committed, before>>,
         \A p \in Queries \ {q} : req'[p] = req[p],
         req'[q].stage \in {"handler", "embed", "search"}
           => req[q].stage \in {"handler", "embed", "search"},
         RequestInv(q)', AnswerInv(q)'
  PROVE  ServiceInv'
<1>1. /\ StateTypes /\ ProcessInv /\ CommitsWhole /\ SettingsInv
      /\ \A p \in Queries : RequestInv(p) /\ AnswerInv(p)
  BY DEF ServiceInv
<1>2. StateTypes' /\ CommitsWhole' /\ SettingsInv'
  BY <1>1 DEF StateTypes, CommitsWhole, SettingsInv
<1>3. Active' \subseteq Active
  <2> SUFFICES ASSUME NEW p \in Active' PROVE p \in Active
    OBVIOUS
  <2>1. p \in Queries /\ req'[p].stage \in {"handler", "embed", "search"}  BY DEF Active
  <2> QED  BY <2>1 DEF Active
<1>4. ProcessInv'  BY <1>1, <1>3 DEF ProcessInv
<1>5. ASSUME NEW p \in Queries PROVE RequestInv(p)' /\ AnswerInv(p)'
  <2>1. CASE p = q  BY <2>1
  <2>2. CASE p # q
    <3>1. req'[p] = req[p] /\ before'[p] = before[p]  BY <2>2
    <3>2. AnswerInv(p)'  BY <1>1, <3>1, AnswerKept
    <3> QED  BY <1>1, <3>1, <3>2 DEF RequestInv
  <2> QED  BY <2>1, <2>2
<1> QED  BY <1>2, <1>4, <1>5 DEF ServiceInv

LEMMA DeadlineKeeps ==
  ASSUME ServiceInv, NEW q \in Queries, DeadlinePasses(q)
  PROVE  ServiceInv'
<1>1. StateTypes /\ RequestInv(q) /\ AnswerInv(q)  BY DEF ServiceInv
<1>2. UNCHANGED <<boot, env, server, database, expired, committed, before>>
  BY DEF DeadlinePasses, serverVars, configVars
<1>3. /\ req' \in [Queries -> Requests]
      /\ \A p \in Queries \ {q} : req'[p] = req[p]
      /\ req'[q].stage = req[q].stage /\ req'[q].body = req[q].body
      /\ req'[q].code = req[q].code /\ req'[q].found = req[q].found
  BY <1>1, Delayed
<1>4. AnswerInv(q)'  BY <1>1, <1>2, <1>3, AnswerKept
<1>5. RequestInv(q)'  BY <1>1, <1>2, <1>3 DEF RequestInv
<1> QED  BY <1>2, <1>3, <1>4, <1>5, RequestKeeps

LEMMA HandleKeeps ==
  ASSUME ServiceInv, NEW q \in Queries, Handle(q)
  PROVE  ServiceInv'
<1>1. StateTypes /\ RequestInv(q) /\ AnswerInv(q)  BY DEF ServiceInv
<1>2. /\ req[q].stage \in {"handler", "embed", "search"}
      /\ UNCHANGED <<boot, env, server, database, expired, committed, before>>
  BY Handled DEF serverVars, configVars
<1>3. req[q].code # 200 /\ req[q].body \in Bodies /\ before[q] \subseteq committed
      /\ req[q].found = << >>
  BY <1>1, <1>2 DEF RequestInv
<1>4. ASSUME NEW stage \in {"embed", "search"}, Goto(q, stage) PROVE ServiceInv'
  <2>1. stage \in Stages  BY DEF Stages
  <2>2. /\ req' \in [Queries -> Requests]
        /\ \A p \in Queries \ {q} : req'[p] = req[p]
        /\ req'[q].stage = stage /\ req'[q].body = req[q].body
        /\ req'[q].code = req[q].code /\ req'[q].found = req[q].found
    BY <1>1, <1>4, <2>1, Went
  <2>3. AnswerInv(q)'  BY <1>1, <1>2, <2>2, AnswerKept
  <2>4. RequestInv(q)'  BY <1>1, <1>2, <1>3, <2>2 DEF RequestInv
  <2> QED  BY <1>2, <2>2, <2>3, <2>4, RequestKeeps
<1>5. ASSUME NEW code \in {400, 500}, Answer(q, code, << >>) PROVE ServiceInv'
  <2> DEFINE none == << >>
  <2>1. code \in Codes /\ none \in Seq(Chunks) /\ Answer(q, code, none)  BY <1>5 DEF Codes
  <2> HIDE DEF none
  <2>2. /\ req' \in [Queries -> Requests]
        /\ \A p \in Queries \ {q} : req'[p] = req[p]
        /\ req'[q].stage = "ended" /\ req'[q].body = req[q].body
        /\ req'[q].code # 200 /\ req'[q].found = << >>
    <3>1. /\ req' \in [Queries -> Requests]
          /\ \A p \in Queries \ {q} : req'[p] = req[p]
          /\ req'[q].stage = "ended" /\ req'[q].body = req[q].body
          /\ \/ req'[q].code = code /\ req'[q].found = none
             \/ req'[q].code = 0 /\ req'[q].found = << >>
      BY <1>1, <2>1, Answered
    <3> QED  BY <3>1 DEF none
  <2>3. AnswerInv(q)'  BY <2>2 DEF AnswerInv
  <2>4. RequestInv(q)'  BY <1>2, <1>3, <2>2 DEF RequestInv
  <2> QED  BY <1>2, <2>2, <2>3, <2>4, RequestKeeps
<1>6. ASSUME NEW t \in Ordered(q), Answer(q, 200, Limited(q, t)) PROVE ServiceInv'
  <2>1. 200 \in Codes  BY DEF Codes
  <2>2. Limited(q, t) \in Seq(Chunks)
    <3>1. TopK(q) \in Nat  BY <1>3, InferenceAssumption DEF TopK
    <3>2. committed \subseteq Chunks  BY <1>1 DEF StateTypes
    <3> QED  BY <3>1, <3>2, LimitedSpec
  <2> DEFINE s == Limited(q, t)
  <2> HIDE DEF s
  <2>3. /\ req' \in [Queries -> Requests]
        /\ \A p \in Queries \ {q} : req'[p] = req[p]
        /\ req'[q].stage = "ended" /\ req'[q].body = req[q].body
        /\ \/ req'[q].code = 200 /\ req'[q].found = s
           \/ req'[q].code = 0 /\ req'[q].found = << >>
    BY <1>1, <1>6, <2>1, <2>2, Answered DEF s
  <2>4. AnswerInv(q)'
    <3>1. CASE req'[q].code = 200 /\ req'[q].found = s
      BY <1>2, <1>3, <2>3, <3>1, AnswerGiven DEF s
    <3>2. CASE req'[q].code = 0  BY <3>2 DEF AnswerInv
    <3> QED  BY <2>3, <3>1, <3>2
  <2>5. RequestInv(q)'  BY <1>2, <1>3, <2>3 DEF RequestInv
  <2> QED  BY <1>2, <2>3, <2>4, <2>5, RequestKeeps
<1> QED  BY <1>4, <1>5, <1>6, Handled

LEMMA CommitKeeps ==
  ASSUME ServiceInv, NEW d \in Docs, Commit(d)
  PROVE  ServiceInv'
<1>1. /\ StateTypes /\ ProcessInv /\ CommitsWhole /\ SettingsInv
      /\ \A p \in Queries : RequestInv(p) /\ AnswerInv(p)
  BY DEF ServiceInv
<1>2. /\ committed' = committed \cup ChunksOf(d) /\ ChunksOf(d) \subseteq Chunks
      /\ UNCHANGED <<boot, env, server, database, expired, req, before>>
  BY DEF Commit, serverVars, configVars, requestVars, ChunksOf
<1>3. StateTypes' /\ SettingsInv'  BY <1>1, <1>2 DEF StateTypes, SettingsInv
<1>4. CommitsWhole'  BY <1>1, <1>2 DEF CommitsWhole, ChunksOf
<1>5. ProcessInv'  BY <1>1, <1>2 DEF ProcessInv, Active
<1>6. ASSUME NEW p \in Queries PROVE RequestInv(p)' /\ AnswerInv(p)'
  <2>1. AnswerInv(p)'  BY <1>1, <1>2, AnswerKept
  <2>2. RequestInv(p)'  BY <1>1, <1>2 DEF RequestInv
  <2> QED  BY <2>1, <2>2
<1> QED  BY <1>3, <1>4, <1>5, <1>6 DEF ServiceInv

\* A step of the process that leaves requests and chunks alone.
LEMMA ProcessKeeps ==
  ASSUME ServiceInv, UNCHANGED <<req, before, committed>>,
         server' \in {"stopped", "serving", "draining", "closed", "exited"},
         database' \in BOOLEAN, expired' \in BOOLEAN,
         ProcessInv', SettingsInv'
  PROVE  ServiceInv'
<1>1. /\ StateTypes /\ CommitsWhole
      /\ \A p \in Queries : RequestInv(p) /\ AnswerInv(p)
  BY DEF ServiceInv
<1>2. StateTypes' /\ CommitsWhole'  BY <1>1 DEF StateTypes, CommitsWhole
<1>3. ASSUME NEW p \in Queries PROVE RequestInv(p)' /\ AnswerInv(p)'
  <2>1. AnswerInv(p)'  BY <1>1, AnswerKept
  <2>2. RequestInv(p)'  BY <1>1 DEF RequestInv
  <2> QED  BY <2>1, <2>2
<1> QED  BY <1>2, <1>3 DEF ServiceInv

LEMMA ConfigureKeeps ==
  ASSUME ServiceInv, Configure
  PROVE  ServiceInv'
<1>1. StateTypes /\ ProcessInv /\ SettingsInv  BY DEF ServiceInv
<1>2. /\ UNCHANGED <<server, database, expired, committed, req, before>>
      /\ server = "stopped" /\ (LoadDotEnv \/ LoadConfig)
  BY DEF Configure, serverVars, requestVars
<1>3. ProcessInv'  BY <1>1, <1>2 DEF ProcessInv, Active
<1>4. SettingsInv'
  <2>1. CASE LoadDotEnv  BY <1>1, <1>2, <2>1 DEF SettingsInv, LoadDotEnv
  <2>2. CASE LoadConfig
    <3>1. /\ boot' = IF Refused = {} THEN "configured" ELSE "failed"
          /\ env' = [v \in Variables |-> Setting(v)]
      BY <2>2 DEF LoadConfig
    <3>2. ASSUME Refused = {}, NEW v \in Required
          PROVE  env'[v] # Unset /\ ~(v \in Parsed /\ env'[v] \in Unparsable)
      <4>1. env[v] # Unset /\ ~(v \in Parsed /\ env[v] \in Unparsable)
        BY <3>2 DEF Refused
      <4>2. env'[v] = env[v]  BY <3>1, <4>1, ConfigAssumption DEF Setting
      <4> QED  BY <4>1, <4>2
    <3>3. CASE Refused = {}
      <4>1. boot' = "configured"  BY <3>1, <3>3
      <4>2. \A v \in Required : env'[v] # Unset /\ ~(v \in Parsed /\ env'[v] \in Unparsable)
        BY <3>2, <3>3
      <4> QED  BY <4>1, <4>2 DEF SettingsInv
    <3>4. CASE Refused # {}
      <4>1. boot' = "failed"  BY <3>1, <3>4
      <4>2. server' = "stopped"  BY <1>2
      <4> QED  BY <4>1, <4>2 DEF SettingsInv
    <3> QED  BY <3>3, <3>4
  <2> QED  BY <1>2, <2>1, <2>2
<1> QED  BY <1>1, <1>2, <1>3, <1>4, ProcessKeeps DEF StateTypes

LEMMA ServerKeeps ==
  ASSUME ServiceInv, Serve \/ StopSignal \/ DrainExpires \/ CloseDatabase
  PROVE  ServiceInv'
<1>1. StateTypes /\ ProcessInv /\ SettingsInv  BY DEF ServiceInv
<1>2. UNCHANGED <<boot, env, committed, req, before>>
  BY DEF Serve, StopSignal, DrainExpires, CloseDatabase, configVars, requestVars
<1>3. Active' = Active  BY <1>2 DEF Active
<1>4. CASE Serve
  <2>1. /\ server = "stopped" /\ expired' = expired
        /\ \/ boot = "configured" /\ server' = "serving" /\ database' = TRUE
           \/ server' = "exited" /\ database' = database
    BY <1>4 DEF Serve
  <2>2. ProcessInv'  BY <1>1, <1>3, <2>1 DEF ProcessInv
  <2>3. SettingsInv'  BY <1>1, <1>2, <2>1 DEF SettingsInv
  <2> QED  BY <1>1, <1>2, <2>1, <2>2, <2>3, ProcessKeeps DEF StateTypes
<1>5. CASE StopSignal
  <2>1. server = "serving" /\ server' = "draining" /\ UNCHANGED <<database, expired>>
    BY <1>5 DEF StopSignal
  <2>2. ProcessInv'  BY <1>1, <1>3, <2>1 DEF ProcessInv
  <2>3. SettingsInv'  BY <1>1, <1>2, <2>1 DEF SettingsInv
  <2> QED  BY <1>1, <1>2, <2>1, <2>2, <2>3, ProcessKeeps DEF StateTypes
<1>6. CASE DrainExpires
  <2>1. server = "draining" /\ expired' = TRUE /\ UNCHANGED <<server, database>>
    BY <1>6 DEF DrainExpires
  <2>2. ProcessInv'  BY <1>1, <1>3, <2>1 DEF ProcessInv
  <2>3. SettingsInv'  BY <1>1, <1>2, <2>1 DEF SettingsInv
  <2> QED  BY <1>1, <1>2, <2>1, <2>2, <2>3, ProcessKeeps DEF StateTypes
<1>7. CASE CloseDatabase
  <2>1. /\ server = "draining" /\ (Active = {} \/ expired)
        /\ server' = "closed" /\ database' = FALSE /\ expired' = expired
    BY <1>7 DEF CloseDatabase, ShutdownReturns
  <2>2. ProcessInv'  BY <1>1, <1>3, <2>1 DEF ProcessInv
  <2>3. SettingsInv'  BY <1>1, <1>2, <2>1 DEF SettingsInv
  <2> QED  BY <1>1, <1>2, <2>1, <2>2, <2>3, ProcessKeeps DEF StateTypes
<1> QED  BY <1>4, <1>5, <1>6, <1>7

LEMMA ExitKeeps ==
  ASSUME ServiceInv, Exit
  PROVE  ServiceInv'
<1> DEFINE dropped == [NoRequest EXCEPT !.stage = "ended"]
<1>1. /\ StateTypes /\ ProcessInv /\ CommitsWhole /\ SettingsInv
      /\ \A p \in Queries : RequestInv(p) /\ AnswerInv(p)
  BY DEF ServiceInv
<1>2. /\ server = "closed" /\ server' = "exited"
      /\ UNCHANGED <<boot, env, database, expired, committed, before>>
      /\ req' = [q \in Queries |-> IF q \in Active THEN dropped ELSE req[q]]
  BY DEF Exit, configVars
<1>3. /\ dropped \in Requests /\ dropped.stage = "ended" /\ dropped.code = 0
      /\ dropped.found = << >>
  <2>1. "ended" \in Stages /\ 0 \in Codes /\ << >> \in Seq(Chunks) /\ FALSE \in BOOLEAN
    BY DEF Stages, Codes
  <2>2. NoRequest \in Requests /\ NoRequest.code = 0 /\ NoRequest.found = << >>
    <3>1. "idle" \in Stages  BY DEF Stages
    <3>2. NoRequest \in Requests  BY <2>1, <3>1, Zenon DEF NoRequest, Requests
    <3> QED  BY <3>2 DEF NoRequest
  <2> QED  BY <2>1, <2>2 DEF Requests
<1> HIDE DEF dropped
<1>4. req' \in [Queries -> Requests]  BY <1>1, <1>2, <1>3 DEF StateTypes
<1>5. StateTypes' /\ CommitsWhole' /\ SettingsInv'
  BY <1>1, <1>2, <1>4 DEF StateTypes, CommitsWhole, SettingsInv
<1>6. Active' = {}
  <2> SUFFICES ASSUME NEW p \in Active' PROVE FALSE
    OBVIOUS
  <2>1. p \in Queries /\ req'[p].stage \in {"handler", "embed", "search"}  BY DEF Active
  <2>2. p \notin Active  BY <1>2, <1>3, <2>1
  <2> QED  BY <1>2, <2>1, <2>2 DEF Active
<1>7. ProcessInv'  BY <1>1, <1>2, <1>6 DEF ProcessInv
<1>8. ASSUME NEW p \in Queries PROVE RequestInv(p)' /\ AnswerInv(p)'
  <2>1. CASE p \in Active
    <3>1. req'[p] = dropped  BY <1>2, <2>1
    <3> QED  BY <1>1, <1>2, <1>3, <3>1 DEF RequestInv, AnswerInv
  <2>2. CASE p \notin Active
    <3>1. req'[p] = req[p] /\ before'[p] = before[p]  BY <1>2, <2>2
    <3>2. AnswerInv(p)'  BY <1>1, <3>1, AnswerKept
    <3> QED  BY <1>1, <1>2, <3>1, <3>2 DEF RequestInv
  <2> QED  BY <2>1, <2>2
<1> QED  BY <1>5, <1>7, <1>8 DEF ServiceInv

LEMMA ServiceStays == ServiceInv /\ [Next]_vars => ServiceInv'
<1> SUFFICES ASSUME ServiceInv, [Next]_vars PROVE ServiceInv'
  OBVIOUS
<1>1. CASE Main  BY <1>1, ConfigureKeeps, ServerKeeps, ExitKeeps DEF Main
<1>2. CASE StopSignal \/ DrainExpires  BY <1>2, ServerKeeps
<1>3. ASSUME NEW q \in Queries, NEW b \in Bodies, Accept(q, b) PROVE ServiceInv'
  BY <1>3, AcceptKeeps
<1>4. ASSUME NEW q \in Queries, DeadlinePasses(q) PROVE ServiceInv'  BY <1>4, DeadlineKeeps
<1>5. ASSUME NEW q \in Queries, Handle(q) PROVE ServiceInv'  BY <1>5, HandleKeeps
<1>6. ASSUME NEW d \in Docs, Commit(d) PROVE ServiceInv'  BY <1>6, CommitKeeps
<1>7. CASE UNCHANGED vars
  <2>1. UNCHANGED <<boot, env, server, database, expired, committed, req, before>>
    BY <1>7 DEF vars, configVars, serverVars, requestVars
  <2>2. StateTypes /\ ProcessInv /\ SettingsInv  BY DEF ServiceInv
  <2>3. ProcessInv' /\ SettingsInv'  BY <2>1, <2>2 DEF ProcessInv, SettingsInv, Active
  <2> QED  BY <2>1, <2>2, <2>3, ProcessKeeps DEF StateTypes
<1> QED  BY <1>1, <1>2, <1>3, <1>4, <1>5, <1>6, <1>7 DEF Next

THEOREM ServiceHolds == Spec => []ServiceInv
<1>1. Init => ServiceInv  BY ServiceStarts
<1>2. ServiceInv /\ [Next]_vars => ServiceInv'  BY ServiceStays
<1> QED  BY <1>1, <1>2, PTL DEF Spec

-----------------------------------------------------------------------------
(* What the runs check. *)

\* InferenceService.Query and main: the requests and the process have their types,
\* and a process serves only with all the settings it requires.
THEOREM InferenceTypes == Spec => []TypeOK
<1>1. ServiceInv => TypeOK
  <2> SUFFICES ASSUME ServiceInv PROVE TypeOK
    OBVIOUS
  <2>1. StateTypes /\ SettingsInv /\ \A q \in Queries : RequestInv(q)  BY DEF ServiceInv
  <2>2. ASSUME NEW q \in Queries
        PROVE  /\ req[q].stage \in {"idle", "handler", "embed", "search", "ended"}
               /\ req[q].code \in {0, 200, 400, 500}
               /\ req[q].code # 200 => req[q].found = << >>
    <3>1. req[q] \in Requests  BY <2>1 DEF StateTypes
    <3>2. req[q].stage \in Stages /\ req[q].code \in Codes  BY <3>1 DEF Requests
    <3> QED  BY <2>1, <3>2 DEF Stages, Codes, RequestInv
  <2>3. {database, expired} \subseteq BOOLEAN  BY <2>1 DEF StateTypes
  <2>4. /\ boot \in {"dotenv", "configured", "failed"}
        /\ server = "serving" =>
             \A v \in Required : env[v] # Unset /\ ~(v \in Parsed /\ env[v] \in Unparsable)
    BY <2>1 DEF SettingsInv
  <2> QED  BY <2>1, <2>2, <2>3, <2>4 DEF TypeOK, StateTypes
<1> QED  BY <1>1, ServiceHolds, PTL

\* shutdown in main.go: the pool is closed under a request, or the process ends under
\* it, only after Shutdown has waited its 10 seconds.
THEOREM DrainsInTime == Spec => []DrainedInTime
<1>1. ServiceInv => DrainedInTime  BY DEF ServiceInv, ProcessInv, DrainedInTime
<1> QED  BY <1>1, ServiceHolds, PTL

\* SearchSimilarVectors beside SaveBulk: an answer that is not full has all the chunks
\* of a document that are as like the query as one that it has.
THEOREM AnswersWhole == Spec => []DocumentsWhole
<1>1. ServiceInv => DocumentsWhole  BY DEF ServiceInv, AnswerInv, DocumentsWhole
<1> QED  BY <1>1, ServiceHolds, PTL

\* SearchSimilarVectors: an answer holds only chunks of the tenant that are as like as
\* MinSimilarity, which takes 0 for 0.18; nothing of that kind that was there when the
\* query came is left out unless the answer is full, or for something less like it.
\* Chunks may share a similarity, and LIMIT cut anywhere among those that do.
THEOREM AnswersBest == Spec => []NothingBetterLeftOut
<1>1. ServiceInv => NothingBetterLeftOut
  BY DEF ServiceInv, AnswerInv, NothingBetterLeftOut
<1> QED  BY <1>1, ServiceHolds, PTL

-----------------------------------------------------------------------------
(* The files of settings. *)

LEMMA AssignmentsSpec ==
  ASSUME files \in Seq(Seq(Lines)), NEW v
  PROVE  /\ \A p \in Assignments(v) :
              /\ p[1] \in DOMAIN files /\ p[2] \in DOMAIN files[p[1]] /\ p = <<p[1], p[2]>>
              /\ p[1] \in Nat \ {0} /\ p[2] \in Nat \ {0} /\ p[2] <= Len(files[p[1]])
              /\ files[p[1]][p[2]].key = v /\ files[p[1]][p[2]].value # Unset
         /\ \A f \in DOMAIN files : \A l \in DOMAIN files[f] :
              files[f][l].key = v /\ files[f][l].value # Unset => <<f, l>> \in Assignments(v)
<1>1. ASSUME NEW p \in Assignments(v)
      PROVE  /\ p[1] \in DOMAIN files /\ p[2] \in DOMAIN files[p[1]] /\ p = <<p[1], p[2]>>
             /\ p[1] \in Nat \ {0} /\ p[2] \in Nat \ {0} /\ p[2] <= Len(files[p[1]])
             /\ files[p[1]][p[2]].key = v /\ files[p[1]][p[2]].value # Unset
  <2>1. PICK f \in DOMAIN files :
          p \in {f} \X {l \in DOMAIN files[f] : files[f][l].key = v /\ files[f][l].value # Unset}
    BY DEF Assignments
  <2>2. /\ p = <<p[1], p[2]>> /\ p[1] = f /\ p[2] \in DOMAIN files[f]
        /\ files[f][p[2]].key = v /\ files[f][p[2]].value # Unset
    BY <2>1
  <2>3. f \in 1 .. Len(files) /\ Len(files) \in Nat /\ files[f] \in Seq(Lines)  BY <2>1
  <2>4. p[2] \in 1 .. Len(files[f]) /\ Len(files[f]) \in Nat  BY <2>2, <2>3
  <2>5. p[1] \in Nat \ {0} /\ p[2] \in Nat \ {0} /\ p[2] <= Len(files[p[1]])
    BY <2>2, <2>3, <2>4
  <2> QED  BY <2>1, <2>2, <2>5
<1>2. ASSUME NEW f \in DOMAIN files, NEW l \in DOMAIN files[f],
             files[f][l].key = v, files[f][l].value # Unset
      PROVE  <<f, l>> \in Assignments(v)
  BY <1>2 DEF Assignments
<1> QED  BY <1>1, <1>2

\* A line of the scanner.
LEMMA LineKeeps ==
  ASSUME DotEnvInv, boot = "dotenv", NEW v \in Variables,
         fileAt <= Len(files), lineAt <= Len(files[fileAt]),
         env' = Setenv(files[fileAt][lineAt].key, files[fileAt][lineAt].value),
         lineAt' = lineAt + 1, UNCHANGED <<fileAt, files, inherited>>
  PROVE  FirstRead(v)'
<1> DEFINE line == files[fileAt][lineAt]
<1>1. /\ files \in Seq(Seq(Lines)) /\ fileAt \in Nat \ {0} /\ lineAt \in Nat \ {0}
      /\ env \in [Variables -> Values \cup {Unset}] /\ FirstRead(v)
  BY DEF DotEnvInv
<1>2. fileAt \in DOMAIN files /\ lineAt \in DOMAIN files[fileAt] /\ line \in Lines
  <2>1. fileAt \in DOMAIN files /\ files[fileAt] \in Seq(Lines)  BY <1>1
  <2> QED  BY <1>1, <2>1
<1> HIDE DEF line
<1>3. line.key \in Variables  BY <1>2 DEF Lines
<1>4. /\ v # line.key => env'[v] = env[v]
      /\ env[v] # Unset => env'[v] = env[v]
      /\ v = line.key /\ env[v] = Unset => env'[v] = line.value
  BY <1>1, <1>3 DEF Setenv, line
<1>5. Assignments(v)' = Assignments(v)  BY DEF Assignments
<1>6. /\ \A p \in Assignments(v) :
            /\ p[1] \in Nat \ {0} /\ p[2] \in Nat \ {0} /\ p = <<p[1], p[2]>>
            /\ files[p[1]][p[2]].key = v /\ files[p[1]][p[2]].value # Unset
      /\ line.key = v /\ line.value # Unset => <<fileAt, lineAt>> \in Assignments(v)
  <2>1. line.key = v /\ line.value # Unset => <<fileAt, lineAt>> \in Assignments(v)
    BY <1>1, <1>2, AssignmentsSpec DEF line
  <2> QED  BY <1>1, <2>1, AssignmentsSpec
<1>7. \A p \in Assignments(v) : Read(p)' <=> Read(p) \/ p = <<fileAt, lineAt>>
  <2> SUFFICES ASSUME NEW p \in Assignments(v)
               PROVE  Read(p)' <=> Read(p) \/ p = <<fileAt, lineAt>>
    OBVIOUS
  <2>1. p[1] \in Nat /\ p[2] \in Nat /\ p = <<p[1], p[2]>>  BY <1>6
  <2>2. p = <<fileAt, lineAt>> <=> p[1] = fileAt /\ p[2] = lineAt  BY <2>1
  <2> QED  BY <1>1, <2>1, <2>2 DEF Read
<1>8. inherited[v] # Unset => env'[v] = inherited[v]  BY <1>1, <1>4 DEF FirstRead
<1>9. ASSUME inherited[v] = Unset, env'[v] = Unset, NEW p \in Assignments(v)
      PROVE  ~Read(p)'
  <2>1. env[v] = Unset /\ ~Read(p)  BY <1>1, <1>4, <1>9 DEF FirstRead
  <2>2. p # <<fileAt, lineAt>>
    <3> SUFFICES ASSUME p = <<fileAt, lineAt>> PROVE FALSE
      OBVIOUS
    <3>1. line.key = v /\ line.value # Unset  BY <1>6 DEF line
    <3> QED  BY <1>4, <1>9, <2>1, <3>1
  <2> QED  BY <1>7, <2>1, <2>2
<1>10. ASSUME inherited[v] = Unset, env'[v] # Unset
       PROVE  \E p \in Assignments(v) : /\ Read(p)' /\ env'[v] = files[p[1]][p[2]].value
                                        /\ \A r \in Assignments(v) : ~Earlier(r, p)
  <2>1. CASE env[v] # Unset
    <3>1. PICK p \in Assignments(v) : /\ Read(p) /\ env[v] = files[p[1]][p[2]].value
                                      /\ \A r \in Assignments(v) : ~Earlier(r, p)
      BY <1>1, <1>10, <2>1 DEF FirstRead
    <3>2. Read(p)' /\ env'[v] = env[v]  BY <1>4, <1>7, <2>1, <3>1
    <3> QED  BY <3>1, <3>2
  <2>2. CASE env[v] = Unset
    <3>1. line.key = v /\ env'[v] = line.value  BY <1>4, <1>10, <2>2
    <3>2. PICK p \in Assignments(v) : p = <<fileAt, lineAt>>  BY <1>6, <1>10, <3>1
    <3>3. p[1] = fileAt /\ p[2] = lineAt  BY <3>2
    <3>4. Read(p)' /\ env'[v] = files[p[1]][p[2]].value  BY <1>7, <3>1, <3>2, <3>3 DEF line
    <3>5. \A r \in Assignments(v) : ~Read(r)  BY <1>1, <1>10, <2>2 DEF FirstRead
    <3>6. \A r \in Assignments(v) : ~Earlier(r, p)  BY <3>3, <3>5 DEF Read, Earlier
    <3> QED  BY <3>4, <3>6
  <2> QED  BY <2>1, <2>2
<1> QED  BY <1>5, <1>8, <1>9, <1>10 DEF FirstRead, Earlier

\* The end of a file.
LEMMA FileKeeps ==
  ASSUME DotEnvInv, boot = "dotenv", NEW v \in Variables,
         fileAt <= Len(files), lineAt > Len(files[fileAt]),
         fileAt' = fileAt + 1, lineAt' = 1, UNCHANGED <<env, files, inherited>>
  PROVE  FirstRead(v)'
<1>1. /\ files \in Seq(Seq(Lines)) /\ fileAt \in Nat \ {0} /\ lineAt \in Nat \ {0}
      /\ FirstRead(v)
  BY DEF DotEnvInv
<1>2. Assignments(v)' = Assignments(v)  BY DEF Assignments
<1>3. files[fileAt] \in Seq(Lines) /\ Len(files[fileAt]) \in Nat  BY <1>1
<1>4. \A p \in Assignments(v) : Read(p)' <=> Read(p)
  <2> SUFFICES ASSUME NEW p \in Assignments(v) PROVE Read(p)' <=> Read(p)
    OBVIOUS
  <2>1. p[1] \in Nat /\ p[2] \in Nat \ {0} /\ p[2] <= Len(files[p[1]])
    BY <1>1, AssignmentsSpec
  <2>2. p[1] = fileAt => p[2] < lineAt  BY <1>1, <1>3, <2>1
  <2> QED  BY <1>1, <2>1, <2>2 DEF Read
<1> QED  BY <1>1, <1>2, <1>4 DEF FirstRead, Earlier

LEMMA DotEnvKept == DotEnvInv /\ UNCHANGED configVars => DotEnvInv'
<1> SUFFICES ASSUME DotEnvInv, UNCHANGED <<boot, env, files, fileAt, lineAt, inherited>>
             PROVE  DotEnvInv'
  BY DEF configVars
<1>1. ASSUME NEW v \in Variables, FirstRead(v) PROVE FirstRead(v)'
  BY <1>1 DEF FirstRead, Assignments, Read, Earlier
<1> QED  BY <1>1 DEF DotEnvInv

LEMMA DotEnvStarts == Init => DotEnvInv
<1> SUFFICES ASSUME Init PROVE DotEnvInv
  OBVIOUS
<1>1. /\ env \in Environments /\ files \in Files /\ fileAt = 1 /\ lineAt = 1 /\ inherited = env
  BY DEF Init, ConfigInit
<1>2. files \in Seq(Seq(Lines)) /\ env \in [Variables -> Values \cup {Unset}]
  BY <1>1, ConfigAssumption DEF Lines
<1>3. ASSUME NEW v \in Variables PROVE FirstRead(v)
  <2>1. \A p \in Assignments(v) : ~Read(p)
    <3> SUFFICES ASSUME NEW p \in Assignments(v) PROVE ~Read(p)
      OBVIOUS
    <3>1. p[1] \in Nat \ {0} /\ p[2] \in Nat \ {0}  BY <1>2, AssignmentsSpec
    <3> QED  BY <1>1, <3>1 DEF Read
  <2> QED  BY <1>1, <2>1 DEF FirstRead
<1> QED  BY <1>1, <1>2, <1>3 DEF DotEnvInv

LEMMA DotEnvStays == DotEnvInv /\ [Next]_vars => DotEnvInv'
<1> SUFFICES ASSUME DotEnvInv, [Next]_vars PROVE DotEnvInv'
  OBVIOUS
<1>1. CASE Configure
  <2>1. CASE LoadConfig
    <3>1. boot' # "dotenv"  BY <2>1 DEF LoadConfig
    <3> QED  BY <3>1 DEF DotEnvInv
  <2>2. CASE LoadDotEnv
    <3>1. /\ boot = "dotenv" /\ fileAt <= Len(files) /\ UNCHANGED <<boot, files, inherited>>
          /\ \/ /\ lineAt <= Len(files[fileAt])
                /\ env' = Setenv(files[fileAt][lineAt].key, files[fileAt][lineAt].value)
                /\ lineAt' = lineAt + 1 /\ fileAt' = fileAt
             \/ /\ lineAt > Len(files[fileAt])
                /\ fileAt' = fileAt + 1 /\ lineAt' = 1 /\ env' = env
      BY <2>2 DEF LoadDotEnv
    <3>2. \A v \in Variables : FirstRead(v)'  BY <3>1, LineKeeps, FileKeeps
    <3>3. /\ files \in Seq(Seq(Lines)) /\ fileAt \in Nat \ {0} /\ lineAt \in Nat \ {0}
          /\ env \in [Variables -> Values \cup {Unset}]
      BY <3>1 DEF DotEnvInv
    <3>4. env' \in [Variables -> Values \cup {Unset}]
      <4>1. CASE env' = env  BY <3>3, <4>1
      <4>2. CASE /\ lineAt <= Len(files[fileAt])
                 /\ env' = Setenv(files[fileAt][lineAt].key, files[fileAt][lineAt].value)
        <5>1. files[fileAt] \in Seq(Lines)  BY <3>1, <3>3
        <5>2. files[fileAt][lineAt] \in Lines  BY <3>3, <4>2, <5>1
        <5>3. files[fileAt][lineAt].value \in Values \cup {Unset}  BY <5>2 DEF Lines
        <5> QED  BY <3>3, <4>2, <5>3 DEF Setenv
      <4> QED  BY <3>1, <4>1, <4>2
    <3>5. fileAt' \in Nat \ {0} /\ lineAt' \in Nat \ {0} /\ files' \in Seq(Seq(Lines))
      BY <3>1, <3>3
    <3> QED  BY <3>2, <3>4, <3>5 DEF DotEnvInv
  <2> QED  BY <1>1, <2>1, <2>2 DEF Configure
<1>2. CASE UNCHANGED configVars  BY <1>2, DotEnvKept
<1>3. CASE Next
  <2>1. Configure \/ UNCHANGED configVars
    BY <1>3 DEF Next, Main, Serve, CloseDatabase, Exit, StopSignal, DrainExpires, Accept,
                DeadlinePasses, Handle, HandleQuery, GenerateQueryEmbedding,
                SearchSimilarVectors, Commit
  <2> QED  BY <1>1, <1>2, <2>1
<1>4. CASE UNCHANGED vars  BY <1>2, <1>4 DEF vars
<1> QED  BY <1>3, <1>4

\* loadDotEnv before LoadConfig: the environment wins over the files, and of the files
\* the first assignment that is not empty.
THEOREM FirstWins == Spec => []FirstAssignmentWins
<1>1. DotEnvInv => FirstAssignmentWins
  <2> SUFFICES ASSUME DotEnvInv, boot = "dotenv", fileAt > Len(files), NEW v \in Variables
               PROVE  /\ inherited[v] # Unset => env[v] = inherited[v]
                      /\ inherited[v] = Unset /\ env[v] = Unset => Assignments(v) = {}
                      /\ inherited[v] = Unset /\ env[v] # Unset =>
                           \E p \in Assignments(v) :
                             /\ env[v] = files[p[1]][p[2]].value
                             /\ \A r \in Assignments(v) : ~Earlier(r, p)
    BY DEF FirstAssignmentWins
  <2>1. files \in Seq(Seq(Lines)) /\ fileAt \in Nat /\ FirstRead(v)  BY DEF DotEnvInv
  <2>2. \A p \in Assignments(v) : Read(p)
    <3> SUFFICES ASSUME NEW p \in Assignments(v) PROVE Read(p)
      OBVIOUS
    <3>1. p[1] \in DOMAIN files  BY <2>1, AssignmentsSpec
    <3>2. p[1] \in 1 .. Len(files) /\ Len(files) \in Nat  BY <2>1, <3>1
    <3> QED  BY <2>1, <3>2 DEF Read
  <2> QED  BY <2>1, <2>2 DEF FirstRead
<1>2. Init => DotEnvInv  BY DotEnvStarts
<1>3. DotEnvInv /\ [Next]_vars => DotEnvInv'  BY DotEnvStays
<1> QED  BY <1>1, <1>2, <1>3, PTL DEF Spec
=============================================================================
