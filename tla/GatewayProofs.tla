---------------------------- MODULE GatewayProofs ----------------------------
(***************************************************************************)
(* Proofs about Metrics and Gateway, for every number of requests and every *)
(* timeouts that keep the order TimeAssumption states.                     *)
(***************************************************************************)
EXTENDS Gateway, FiniteSetTheorems, TLAPS

(* The counters count these requests ... *)
Arrived == Requests \ In({"away"})
Flying == Requests \ In({"away", "arriving", "gone"})
Answered == {r \in In({"answered", "timed", "leaving", "gone"}) : status[r] # None}
Failed == {r \in In({"leaving", "gone"}) : status[r] = "failed"}
Untimed == In({"answered"})

(* ... and a report in the making is bounded by where they stand. *)
Reported(r) ==
    /\ seen[r]["latency"] # None => seen[r]["latency"] <= Longest * count["responses"]
    /\ seen[r]["responses"] # None =>
          seen[r]["responses"] < count["requests"] /\ seen[r]["latency"] # None
    /\ seen[r]["requests"] # None => seen[r]["responses"] # None

MetricsInv ==
    /\ Balanced
    /\ HonestReport
    /\ \A r \in Requests :
         /\ Reported(r)
         /\ at[r] \in {"away", "arriving", "inside"} => status[r] = None
         /\ at[r] \in {"returned", "answered", "timed"} => status[r] # None

LEMMA FiniteParts ==
    ASSUME NEW S \in SUBSET Requests
    PROVE  IsFiniteSet(S) /\ Cardinality(S) \in Nat
  BY MetricsAssumption, FS_Subset, FS_CardinalityType

LEMMA OneMore ==
    ASSUME NEW S \in SUBSET Requests, NEW r \in Requests \ S
    PROVE  Cardinality(S \cup {r}) = Cardinality(S) + 1
  BY FiniteParts, FS_AddElement

LEMMA OneLess ==
    ASSUME NEW S \in SUBSET Requests, NEW r \in S
    PROVE  Cardinality(S \ {r}) = Cardinality(S) - 1
  BY FiniteParts, FS_RemoveElement

LEMMA Times ==
    /\ \A n \in Nat : Longest * (n + 1) = Longest * n + Longest
    /\ \A n \in Nat : Longest * n \in Nat
    /\ \A m, n \in Nat : m <= n => Longest * m <= Longest * n
  BY MetricsAssumption

\* The sets behind the counters, and the counters in their terms.
LEMMA Sets ==
    ASSUME Balanced
    PROVE  /\ {Arrived, Flying, Answered, Failed, Untimed} \subseteq SUBSET Requests
           /\ count["requests"] = Cardinality(Arrived) /\ count["inFlight"] = Cardinality(Flying)
           /\ count["responses"] = Cardinality(Answered) /\ count["errors"] = Cardinality(Failed)
           /\ count["latency"] + Longest * Cardinality(Untimed) <= Longest * count["responses"]
  BY DEF Balanced, Arrived, Flying, Answered, Failed, Untimed, In

\* To keep the invariant is to move the counters as the sets move, and to
\* load what they say.
LEMMA Recount ==
    ASSUME MetricsTypeOK',
           count'["requests"] = Cardinality(Arrived'),
           count'["inFlight"] = Cardinality(Flying'),
           count'["responses"] = Cardinality(Answered'),
           count'["errors"] = Cardinality(Failed'),
           count'["latency"] + Longest * Cardinality(Untimed') <= Longest * count'["responses"]
    PROVE  Balanced'
  BY DEF Balanced, Arrived, Flying, Answered, Failed, Untimed

\* A step that only moves request r on leaves it to the invariant's last
\* conjunct, and reports stay bounded while the counters they rest on grow.
LEMMA ReportsStay ==
    ASSUME MetricsInv, UNCHANGED seen, MetricsTypeOK',
           {count["responses"], count'["responses"]} \subseteq Nat,
           count["responses"] <= count'["responses"], count["requests"] <= count'["requests"]
    PROVE  HonestReport' /\ \A r \in Requests : Reported(r)'
<1> USE DEF MetricsInv, Balanced, MetricsTypeOK
<1>1. Longest * count["responses"] <= Longest * count'["responses"]
  BY Times
<1>2. /\ Longest * count["responses"] \in Int /\ Longest * count'["responses"] \in Int
      /\ \A n \in Names : count[n] \in Int /\ count'[n] \in Int
      /\ {"latency", "responses", "requests", "inFlight"} \subseteq Names
  BY Times DEF Names
<1>3. ASSUME NEW r \in Requests
      PROVE  Reported(r)'
  <2>1. seen[r] \in [Names -> Int \cup {None}] /\ Reported(r)
    OBVIOUS
  <2>2. QED
    BY <1>1, <1>2, <2>1 DEF Reported
<1>4. HonestReport'
  BY DEF HonestReport
<1>5. QED
  BY <1>3, <1>4

LEMMA MetricsTyped ==
    ASSUME MetricsTypeOK, MetricsNext
    PROVE  MetricsTypeOK'
<1> USE MetricsAssumption DEF MetricsTypeOK, Places
<1>1. ASSUME NEW r \in Requests, NEW from \in Places, NEW to \in Places, NEW n \in Names, NEW k \in Int,
             Pass(r, from, to, n, k), UNCHANGED <<status, took>>
      PROVE  MetricsTypeOK'
  BY <1>1 DEF Pass
<1>2. {"requests", "responses", "errors", "inFlight", "latency"} \subseteq Names
  BY DEF Names
<1>3. ASSUME NEW r \in Requests
      PROVE  /\ Arrive(r) => MetricsTypeOK'
             /\ Enter(r) => MetricsTypeOK'
             /\ CountResponse(r) => MetricsTypeOK'
             /\ CountError(r) => MetricsTypeOK'
  BY <1>1, <1>2 DEF Arrive, Enter, CountResponse, CountError
<1>4. ASSUME NEW r \in Requests, AddLatency(r)
      PROVE  MetricsTypeOK'
  <2>1. took[r] \in Int
    OBVIOUS
  <2>2. QED
    BY <1>1, <1>2, <1>4, <2>1 DEF AddLatency
<1>5. ASSUME NEW r \in Requests, NEW c \in {"answered", "failed"}, NEW d \in 0 .. Longest, Return(r, c, d)
      PROVE  MetricsTypeOK'
  BY <1>5 DEF Return
<1>6. ASSUME NEW r \in Requests, Panic(r)
      PROVE  MetricsTypeOK'
  BY <1>6 DEF Panic
<1>7. ASSUME NEW r \in Requests, Leave(r)
      PROVE  MetricsTypeOK'
  <2>1. count' \in [Names -> Int]
    BY <1>2, <1>7 DEF Leave
  <2>2. 0 \in 0 .. Longest
    OBVIOUS
  <2>3. seen' \in [Requests -> [Names -> Int \cup {None}]]
    BY <1>7 DEF Leave
  <2>4. QED
    BY <1>7, <2>1, <2>2, <2>3 DEF Leave
<1>8. ASSUME NEW r \in Requests, NEW n \in Names, Load(r, n)
      PROVE  MetricsTypeOK'
  <2>1. [seen[r] EXCEPT ![n] = count[n]] \in [Names -> Int \cup {None}]
    OBVIOUS
  <2>2. seen' = [seen EXCEPT ![r] = [seen[r] EXCEPT ![n] = count[n]]]
    BY <1>8 DEF Load
  <2>3. QED
    BY <1>8, <2>1, <2>2 DEF Load
<1>9. QED
  BY <1>3, <1>4, <1>5, <1>6, <1>7, <1>8 DEF MetricsNext

\* How each step moves the sets.
LEMMA SetsMove ==
    ASSUME MetricsInv, NEW r \in Requests
    PROVE  /\ Arrive(r) =>
                /\ r \notin Arrived /\ Arrived' = Arrived \cup {r}
                /\ UNCHANGED <<Flying, Answered, Failed, Untimed>>
           /\ Enter(r) =>
                /\ r \notin Flying /\ Flying' = Flying \cup {r}
                /\ UNCHANGED <<Arrived, Answered, Failed, Untimed>>
           /\ CountResponse(r) =>
                /\ r \notin Answered /\ Answered' = Answered \cup {r}
                /\ r \notin Untimed /\ Untimed' = Untimed \cup {r}
                /\ UNCHANGED <<Arrived, Flying, Failed>>
           /\ AddLatency(r) =>
                /\ r \in Untimed /\ Untimed' = Untimed \ {r}
                /\ UNCHANGED <<Arrived, Flying, Answered, Failed>>
           /\ CountError(r) =>
                /\ r \notin Failed
                /\ Failed' = IF status[r] = "failed" THEN Failed \cup {r} ELSE Failed
                /\ UNCHANGED <<Arrived, Flying, Answered, Untimed>>
           /\ Leave(r) =>
                /\ r \in Flying /\ Flying' = Flying \ {r}
                /\ UNCHANGED <<Arrived, Answered, Failed, Untimed>>
           /\ Panic(r) => UNCHANGED <<Arrived, Flying, Answered, Failed, Untimed>>
           /\ \A c, d : Return(r, c, d) => UNCHANGED <<Arrived, Flying, Answered, Failed, Untimed>>
<1> USE DEF MetricsInv, Balanced, MetricsTypeOK, Arrived, Flying, Answered, Failed, Untimed, In, Pass
<1>1. Arrive(r) =>
        /\ r \notin Arrived /\ Arrived' = Arrived \cup {r}
        /\ UNCHANGED <<Flying, Answered, Failed, Untimed>>
  BY DEF Arrive
<1>2. Enter(r) =>
        /\ r \notin Flying /\ Flying' = Flying \cup {r}
        /\ UNCHANGED <<Arrived, Answered, Failed, Untimed>>
  BY DEF Enter
<1>3. CountResponse(r) =>
        /\ r \notin Answered /\ Answered' = Answered \cup {r}
        /\ r \notin Untimed /\ Untimed' = Untimed \cup {r}
        /\ UNCHANGED <<Arrived, Flying, Failed>>
  BY DEF CountResponse
<1>4. AddLatency(r) =>
        /\ r \in Untimed /\ Untimed' = Untimed \ {r}
        /\ UNCHANGED <<Arrived, Flying, Answered, Failed>>
  BY DEF AddLatency
<1>5. CountError(r) =>
        /\ r \notin Failed
        /\ Failed' = IF status[r] = "failed" THEN Failed \cup {r} ELSE Failed
        /\ UNCHANGED <<Arrived, Flying, Answered, Untimed>>
  BY DEF CountError
<1>6. Leave(r) =>
        /\ r \in Flying /\ Flying' = Flying \ {r}
        /\ UNCHANGED <<Arrived, Answered, Failed, Untimed>>
  BY DEF Leave
<1>7. Panic(r) => UNCHANGED <<Arrived, Flying, Answered, Failed, Untimed>>
  <2> SUFFICES ASSUME Panic(r)
               PROVE  UNCHANGED <<Arrived, Flying, Answered, Failed, Untimed>>
    OBVIOUS
  <2>1. at[r] = "inside" /\ at' = [at EXCEPT ![r] = "leaving"] /\ status' = status
    BY DEF Panic
  <2>2. status[r] = None /\ None # "failed"
    BY <2>1, MetricsAssumption
  <2>3. Arrived' = Arrived /\ Flying' = Flying /\ Untimed' = Untimed
    BY <2>1
  <2>4. Answered' = Answered
    BY <2>1, <2>2
  <2>5. Failed' = Failed
    BY <2>1, <2>2
  <2>6. QED
    BY <2>3, <2>4, <2>5
<1>8. \A c, d : Return(r, c, d) => UNCHANGED <<Arrived, Flying, Answered, Failed, Untimed>>
  BY DEF Return
<1>9. QED
  BY <1>1, <1>2, <1>3, <1>4, <1>5, <1>6, <1>7, <1>8

\* Fewer requests are counted as answered than have arrived while one is inside.
LEMMA OneIsInside ==
    ASSUME MetricsInv, NEW r \in Requests, at[r] = "inside"
    PROVE  /\ count["inFlight"] \in Nat /\ count["inFlight"] >= 1
           /\ count["responses"] \in Nat /\ count["requests"] \in Nat
           /\ count["responses"] < count["requests"]
           /\ count["latency"] <= Longest * count["responses"]
<1> USE DEF MetricsInv
<1>1. r \in Flying /\ r \notin Answered /\ Answered \cup {r} \subseteq Arrived
  BY DEF Flying, Answered, Arrived, In
<1>2. {Flying \ {r}, Answered \cup {r}, Answered, Arrived, Flying, Untimed} \subseteq SUBSET Requests
  BY <1>1, Sets
<1>3. Cardinality(Flying \ {r}) = Cardinality(Flying) - 1
  BY <1>1, <1>2, OneLess
<1>4. Cardinality(Answered \cup {r}) = Cardinality(Answered) + 1
  BY <1>1, <1>2, OneMore
<1>5. Cardinality(Answered \cup {r}) <= Cardinality(Arrived)
  BY <1>1, <1>2, FiniteParts, FS_Subset
<1>6. /\ Cardinality(Flying \ {r}) \in Nat /\ Cardinality(Flying) \in Nat
      /\ Cardinality(Answered) \in Nat /\ Cardinality(Arrived) \in Nat
      /\ Cardinality(Untimed) \in Nat
  BY <1>2, FiniteParts
<1>7. count["latency"] \in Int /\ Longest * Cardinality(Untimed) \in Nat
  BY <1>6, Times DEF Balanced, MetricsTypeOK, Names
<1>8. Longest * count["responses"] \in Nat
  BY <1>6, Sets, Times
<1>9. QED
  BY <1>3, <1>4, <1>5, <1>6, <1>7, <1>8, Sets

LEMMA LoadKeepsInv ==
    ASSUME MetricsInv, NEW r \in Requests, NEW n \in Names, Load(r, n), MetricsTypeOK'
    PROVE  MetricsInv'
<1> USE DEF MetricsInv
<1>1. /\ at[r] = "inside" /\ UNCHANGED <<count, at, status, took>> /\ seen[r][n] = None
      /\ \A m \in LoadedBefore[n] : seen[r][m] # None
      /\ seen' = [seen EXCEPT ![r][n] = count[n]]
  BY DEF Load
<1>2. Balanced'
  BY <1>1 DEF Balanced, In
<1>3. \A q \in Requests \ {r} : seen'[q] = seen[q]
  BY <1>1 DEF Balanced, MetricsTypeOK
<1>4. /\ seen'[r][n] = count[n] /\ count[n] \in Int /\ count[n] # None
      /\ \A m \in Names \ {n} : seen'[r][m] = seen[r][m]
  BY <1>1, MetricsAssumption DEF Balanced, MetricsTypeOK
<1>5. {"latency", "responses", "requests", "inFlight"} \subseteq Names
  BY DEF Names
<1>6. /\ n = "responses" => seen[r]["latency"] # None
      /\ n = "requests" => seen[r]["latency"] # None /\ seen[r]["responses"] # None
  BY <1>1 DEF LoadedBefore
<1>7. Reported(r)
  OBVIOUS
<1>8. Reported(r)'
  BY <1>1, <1>4, <1>5, <1>6, <1>7, OneIsInside DEF Reported
<1>9. /\ None \notin {seen'[r]["latency"], seen'[r]["responses"]} =>
            seen'[r]["latency"] <= Longest * seen'[r]["responses"]
      /\ None \notin {seen'[r]["responses"], seen'[r]["requests"]} =>
            seen'[r]["responses"] < seen'[r]["requests"]
      /\ seen'[r]["inFlight"] # None => seen'[r]["inFlight"] >= 1
  BY <1>4, <1>5, <1>6, <1>7, <1>1, OneIsInside DEF Reported, HonestReport
<1>10. HonestReport'
  BY <1>3, <1>9 DEF HonestReport
<1>11. \A q \in Requests : Reported(q)'
  BY <1>1, <1>3, <1>8 DEF Reported
<1>12. QED
  BY <1>1, <1>2, <1>10, <1>11

LEMMA StatusFollows ==
    ASSUME MetricsInv, MetricsNext, NEW q \in Requests
    PROVE  /\ at'[q] \in {"away", "arriving", "inside"} => status'[q] = None
           /\ at'[q] \in {"returned", "answered", "timed"} => status'[q] # None
<1> USE MetricsAssumption DEF MetricsInv, Balanced, MetricsTypeOK
<1> PICK r \in Requests :
       \/ Arrive(r) \/ Enter(r) \/ Panic(r)
       \/ \E c \in {"answered", "failed"}, d \in 0 .. Longest : Return(r, c, d)
       \/ CountResponse(r) \/ AddLatency(r) \/ CountError(r) \/ Leave(r)
       \/ \E n \in Names : Load(r, n)
  BY DEF MetricsNext
<1>1. CASE Arrive(r) \/ Enter(r) \/ CountResponse(r) \/ AddLatency(r) \/ CountError(r)
  BY <1>1 DEF Arrive, Enter, CountResponse, AddLatency, CountError, Pass
<1>2. CASE Panic(r) \/ Leave(r)
  BY <1>2 DEF Panic, Leave
<1>3. CASE \E c \in {"answered", "failed"}, d \in 0 .. Longest : Return(r, c, d)
  BY <1>3 DEF Return
<1>4. CASE \E n \in Names : Load(r, n)
  BY <1>4 DEF Load
<1>5. QED
  BY <1>1, <1>2, <1>3, <1>4

\* The counters' part of the invariant: each counter moves as its set does.
LEMMA CountersFollow ==
    ASSUME MetricsInv, NEW r \in Requests, MetricsTypeOK',
           \/ Arrive(r) \/ Enter(r) \/ Panic(r) \/ (\E c, d : Return(r, c, d))
           \/ CountResponse(r) \/ AddLatency(r) \/ CountError(r) \/ Leave(r)
    PROVE  /\ Balanced'
           /\ {count["responses"], count'["responses"]} \subseteq Nat
           /\ count["responses"] <= count'["responses"] /\ count["requests"] <= count'["requests"]
<1> USE DEF MetricsInv, Names
<1>1. /\ Cardinality(Arrived) \in Nat /\ Cardinality(Flying) \in Nat /\ Cardinality(Answered) \in Nat
      /\ Cardinality(Failed) \in Nat /\ Cardinality(Untimed) \in Nat
  BY Sets, FiniteParts
<1>2. /\ count \in [Names -> Int] /\ took[r] \in 0 .. Longest /\ Longest \in Nat
  BY MetricsAssumption DEF Balanced, MetricsTypeOK
<1>3. \A n \in Nat : Longest * n \in Nat /\ Longest * (n + 1) = Longest * n + Longest
  BY Times
<1>4. CASE Arrive(r)
  <2>1. /\ Cardinality(Arrived') = Cardinality(Arrived) + 1
        /\ UNCHANGED <<Flying, Answered, Failed, Untimed>>
    BY <1>4, SetsMove, Sets, OneMore
  <2>2. count' = [count EXCEPT !["requests"] = @ + 1]
    BY <1>4 DEF Arrive, Pass
  <2>3. QED
    BY <1>1, <1>2, <2>1, <2>2, Sets, Recount
<1>5. CASE Enter(r)
  <2>1. /\ Cardinality(Flying') = Cardinality(Flying) + 1
        /\ UNCHANGED <<Arrived, Answered, Failed, Untimed>>
    BY <1>5, SetsMove, Sets, OneMore
  <2>2. count' = [count EXCEPT !["inFlight"] = @ + 1]
    BY <1>5 DEF Enter, Pass
  <2>3. QED
    BY <1>1, <1>2, <2>1, <2>2, Sets, Recount
<1>6. CASE Panic(r) \/ \E c, d : Return(r, c, d)
  <2>1. UNCHANGED <<Arrived, Flying, Answered, Failed, Untimed>>
    BY <1>6, SetsMove
  <2>2. count' = count
    BY <1>6 DEF Panic, Return
  <2>3. QED
    BY <1>1, <1>2, <2>1, <2>2, Sets, Recount
<1>7. CASE CountResponse(r)
  <2>1. /\ Cardinality(Answered') = Cardinality(Answered) + 1
        /\ Cardinality(Untimed') = Cardinality(Untimed) + 1
        /\ UNCHANGED <<Arrived, Flying, Failed>>
    BY <1>7, SetsMove, Sets, OneMore
  <2>2. count' = [count EXCEPT !["responses"] = @ + 1]
    BY <1>7 DEF CountResponse, Pass
  <2>3. /\ Longest * Cardinality(Untimed') = Longest * Cardinality(Untimed) + Longest
        /\ Longest * count'["responses"] = Longest * count["responses"] + Longest
        /\ Longest * Cardinality(Untimed) \in Nat /\ Longest * count["responses"] \in Nat
    BY <1>1, <1>2, <1>3, <2>1, <2>2, Sets
  <2>4. count'["latency"] + Longest * Cardinality(Untimed') <= Longest * count'["responses"]
    BY <1>2, <2>2, <2>3, Sets
  <2>5. QED
    BY <1>1, <1>2, <2>1, <2>2, <2>4, Sets, Recount
<1>8. CASE AddLatency(r)
  <2>1. /\ Cardinality(Untimed') = Cardinality(Untimed) - 1
        /\ UNCHANGED <<Arrived, Flying, Answered, Failed>>
    BY <1>8, SetsMove, Sets, OneLess
  <2>2. count' = [count EXCEPT !["latency"] = @ + took[r]]
    BY <1>8 DEF AddLatency, Pass
  <2>3. Cardinality(Untimed') \in Nat
    BY <1>8, SetsMove, Sets, FiniteParts
  <2>4. Longest * Cardinality(Untimed) = Longest * Cardinality(Untimed') + Longest
    BY <1>1, <1>3, <2>1, <2>3
  <2>5. Longest * Cardinality(Untimed') \in Nat /\ Longest * count["responses"] \in Nat
    BY <1>1, <1>3, <2>3, Sets
  <2>6. count'["latency"] + Longest * Cardinality(Untimed') <= Longest * count'["responses"]
    BY <1>2, <2>2, <2>4, <2>5, Sets
  <2>7. QED
    BY <1>1, <1>2, <2>1, <2>2, <2>6, Sets, Recount
<1>9. CASE CountError(r)
  <2>1. /\ Cardinality(Failed') = Cardinality(Failed) + (IF status[r] = "failed" THEN 1 ELSE 0)
        /\ UNCHANGED <<Arrived, Flying, Answered, Untimed>>
    BY <1>1, <1>9, SetsMove, Sets, OneMore
  <2>2. count' = [count EXCEPT !["errors"] = @ + (IF status[r] = "failed" THEN 1 ELSE 0)]
    BY <1>9 DEF CountError, Pass
  <2>3. QED
    BY <1>1, <1>2, <2>1, <2>2, Sets, Recount
<1>10. CASE Leave(r)
  <2>1. /\ Cardinality(Flying') = Cardinality(Flying) - 1
        /\ UNCHANGED <<Arrived, Answered, Failed, Untimed>>
    BY <1>10, SetsMove, Sets, OneLess
  <2>2. count' = [count EXCEPT !["inFlight"] = @ - 1]
    BY <1>10 DEF Leave
  <2>3. QED
    BY <1>1, <1>2, <2>1, <2>2, Sets, Recount
<1>11. QED
  BY <1>4, <1>5, <1>6, <1>7, <1>8, <1>9, <1>10

LEMMA MetricsInductive == MetricsInv /\ [MetricsNext]_metricsVars => MetricsInv'
<1> SUFFICES ASSUME MetricsInv, [MetricsNext]_metricsVars PROVE MetricsInv'
  OBVIOUS
<1>1. CASE UNCHANGED metricsVars
  BY <1>1 DEF metricsVars, MetricsInv, Balanced, MetricsTypeOK, HonestReport, Reported, In
<1>2. CASE MetricsNext
  <2>1. MetricsTypeOK'
    BY <1>2, MetricsTyped DEF MetricsInv, Balanced
  <2>2. PICK r \in Requests :
          \/ Arrive(r) \/ Enter(r) \/ Panic(r)
          \/ \E c \in {"answered", "failed"}, d \in 0 .. Longest : Return(r, c, d)
          \/ CountResponse(r) \/ AddLatency(r) \/ CountError(r) \/ Leave(r)
          \/ \E n \in Names : Load(r, n)
    BY <1>2 DEF MetricsNext
  <2>3. CASE \E n \in Names : Load(r, n)
    BY <2>1, <2>3, LoadKeepsInv
  <2>4. CASE ~ \E n \in Names : Load(r, n)
    <3>1. /\ Balanced'
          /\ {count["responses"], count'["responses"]} \subseteq Nat
          /\ count["responses"] <= count'["responses"] /\ count["requests"] <= count'["requests"]
      BY <2>1, <2>2, <2>4, CountersFollow
    <3>2. CASE UNCHANGED seen
      BY <1>2, <2>1, <3>1, <3>2, ReportsStay, StatusFollows DEF MetricsInv
    <3>3. CASE Leave(r)
      <4>1. seen' = [seen EXCEPT ![r] = [n \in Names |-> None]] /\ count'["responses"] = count["responses"]
            /\ count'["requests"] = count["requests"]
        BY <3>3 DEF Leave, MetricsInv, Balanced, MetricsTypeOK, Names
      <4>2. \A q \in Requests \ {r} : seen'[q] = seen[q]
        BY <4>1 DEF MetricsInv, Balanced, MetricsTypeOK
      <4>3. \A n \in Names : seen'[r][n] = None
        BY <4>1 DEF MetricsInv, Balanced, MetricsTypeOK
      <4>4. {"latency", "responses", "requests", "inFlight"} \subseteq Names
        BY DEF Names
      <4>5. HonestReport'
        BY <4>2, <4>3, <4>4 DEF MetricsInv, HonestReport
      <4>6. \A q \in Requests : Reported(q)'
        BY <4>1, <4>2, <4>3, <4>4 DEF MetricsInv, Reported
      <4>7. QED
        BY <1>2, <3>1, <4>5, <4>6, StatusFollows DEF MetricsInv
    <3>4. QED
      BY <2>2, <2>4, <3>2, <3>3
         DEF Arrive, Enter, Panic, Return, CountResponse, AddLatency, CountError, Pass
  <2>5. QED
    BY <2>3, <2>4
<1>3. QED
  BY <1>1, <1>2

LEMMA MetricsStart == MetricsInit => MetricsInv
<1> SUFFICES ASSUME MetricsInit PROVE MetricsInv
  OBVIOUS
<1> USE MetricsAssumption DEF MetricsInit
<1>1. MetricsTypeOK
  BY DEF MetricsTypeOK, Places
<1>2. Arrived = {} /\ Flying = {} /\ Answered = {} /\ Failed = {} /\ Untimed = {}
  BY DEF Arrived, Flying, Answered, Failed, Untimed, In
<1>3. Cardinality({}) = 0 /\ Longest * 0 = 0
  BY FS_EmptySet
<1>4. Balanced
  <2>1. \A n \in Names : count[n] = 0
    OBVIOUS
  <2>2. {"requests", "responses", "errors", "inFlight", "latency"} \subseteq Names
    BY DEF Names
  <2>3. /\ Cardinality(Requests \ In({"away"})) = 0
        /\ Cardinality(Requests \ In({"away", "arriving", "gone"})) = 0
        /\ Cardinality({r \in In({"answered", "timed", "leaving", "gone"}) : status[r] # None}) = 0
        /\ Cardinality({r \in In({"leaving", "gone"}) : status[r] = "failed"}) = 0
        /\ Cardinality(In({"answered"})) = 0
    BY <1>2, <1>3 DEF Arrived, Flying, Answered, Failed, Untimed
  <2>4. QED
    BY ONLY <1>1, <1>3, <2>1, <2>2, <2>3 DEF Balanced
<1>5. HonestReport /\ \A r \in Requests : Reported(r)
  BY DEF HonestReport, Reported, Names
<1>6. QED
  BY <1>4, <1>5 DEF MetricsInv

\* However the atomics' steps interleave, the counters account for every
\* request, and what /metrics reports of them makes sense.
THEOREM ReportsAreHonest == MetricsSpec => []Balanced /\ []HonestReport
<1>1. MetricsInv => Balanced /\ HonestReport
  BY DEF MetricsInv
<1>2. QED
  BY <1>1, MetricsStart, MetricsInductive, PTL DEF MetricsSpec

-----------------------------------------------------------------------------
(* The gateway moves the counters only as Metrics allows. *)

\* A request stays a step away from every limit on its time, and what it has
\* been answered rests on what was judged of it.
Fine(r) ==
    /\ at[r] = "inside" <=> doing[r] # "-"
    /\ readyAt[r] <= age[r]
    /\ doing[r] = "prover" => remote /\ age[r] <= readyAt[r] + ProverTimeout
    /\ doing[r] = "load" => route[r] = "metrics"
    /\ doing[r] = "key" => route[r] = "claim"
    /\ doing[r] = "body" => route[r] \in {"claim", "proof", "store"}
    /\ doing[r] = "store" => route[r] = "store"
    /\ doing[r] = "verify" => age[r] = readyAt[r] /\ route[r] \in {"claim", "proof"}
    /\ at[r] = "arriving" => route[r] \in Routes
    /\ at[r] \in {"away", "arriving"} => age[r] = 0
    /\ at[r] \in {"away", "arriving", "inside"} => answer[r] = None
    /\ at[r] \notin {"away", "arriving", "inside", "gone"} /\ route[r] \in {"claim", "proof"} =>
          age[r] <= readyAt[r] + ProverTimeout
    /\ answer[r] = "valid" =>
          IF remote THEN judged[r] = "valid" /\ took[r] <= readyAt[r] + ProverTimeout
                    ELSE body[r] = "shaped"

GatewayTypes ==
    /\ remote \in BOOLEAN /\ server \in {"serving", "draining", "stopped"}
    /\ drain \in 0 .. DrainTimeout
    /\ route \in [Requests -> Routes \cup {None}] /\ body \in [Requests -> Bodies \cup {None}]
    /\ doing \in [Requests -> Doings]
    /\ age \in [Requests -> 0 .. RequestTimeout] /\ readyAt \in [Requests -> 0 .. RequestTimeout]
    /\ judged \in [Requests -> {None, "valid", "invalid", "error"}]
    /\ answer \in [Requests -> Answers \cup {None}]

GatewayInv == MetricsInv /\ GatewayTypes /\ \A r \in Requests : Fine(r)

\* What a step of request r leaves of another one.
Apart(q) == UNCHANGED <<at[q], took[q], route[q], body[q], doing[q], age[q], readyAt[q], judged[q],
                        answer[q], remote>>

LEMMA ApartIsFine ==
    ASSUME NEW q, Fine(q), Apart(q)
    PROVE  Fine(q)'
  BY DEF Fine, Apart

LEMMA FinishFacts ==
    ASSUME GatewayTypes, MetricsTypeOK, NEW r \in Requests, NEW c \in Answers, Finish(r, c)
    PROVE  /\ at[r] = "inside" /\ at'[r] = "returned" /\ took'[r] = age[r] /\ doing'[r] = "-"
           /\ answer'[r] = c /\ UNCHANGED <<remote, server, drain, route, body, age, judged, count, seen>>
           /\ \A q \in Requests \ {r} :
                UNCHANGED <<at[q], took[q], doing[q], answer[q]>>
           /\ doing' \in [Requests -> Doings] /\ answer' \in [Requests -> Answers \cup {None}]
           /\ MetricsNext
<1> USE DEF Finish, Return, GatewayTypes, MetricsTypeOK
<1>1. doing' \in [Requests -> Doings] /\ answer' \in [Requests -> Answers \cup {None}]
  BY DEF Doings
<1>2. MetricsNext
  <2>1. age[r] \in 0 .. Longest
    BY TimeAssumption, MetricsAssumption
  <2>2. (IF c \in ServerErrors THEN "failed" ELSE "answered") \in {"answered", "failed"}
    OBVIOUS
  <2>3. Return(r, IF c \in ServerErrors THEN "failed" ELSE "answered", age[r])
    BY DEF Finish
  <2>4. QED
    BY ONLY <2>1, <2>2, <2>3, r \in Requests DEF MetricsNext
<1>3. QED
  BY <1>1, <1>2

LEMMA AnswersAre ==
    /\ {"200", "valid", "invalid", "400", "401", "429", "500", "502"} = Answers
    /\ \A r : LocalAnswer(r) \in Answers \cup {None} /\ ProverVerdict(r) \in Answers
  BY DEF Answers, ServerErrors, LocalAnswer, ProverVerdict

\* Whatever ends a handler with answer c leaves the request fine, if the
\* answer is one it may give there.
LEMMA FinishIsFine ==
    ASSUME GatewayInv, NEW r \in Requests, NEW c \in Answers, Finish(r, c),
           \/ UNCHANGED readyAt /\ (route[r] \in {"claim", "proof"} => age[r] <= readyAt[r] + ProverTimeout)
           \/ readyAt' = [readyAt EXCEPT ![r] = age[r]],
           c = "valid" => /\ UNCHANGED readyAt
                          /\ IF remote THEN judged[r] = "valid" /\ age[r] <= readyAt[r] + ProverTimeout
                                       ELSE body[r] = "shaped"
    PROVE  GatewayTypes' /\ (\A q \in Requests : Fine(q)') /\ MetricsNext
<1> USE DEF GatewayInv
<1>1. MetricsTypeOK
  BY DEF MetricsInv, Balanced
<1>2. /\ at[r] = "inside" /\ at'[r] = "returned" /\ took'[r] = age[r] /\ doing'[r] = "-"
      /\ answer'[r] = c /\ UNCHANGED <<remote, server, drain, route, body, age, judged, count, seen>>
      /\ \A q \in Requests \ {r} : UNCHANGED <<at[q], took[q], doing[q], answer[q]>>
      /\ doing' \in [Requests -> Doings] /\ answer' \in [Requests -> Answers \cup {None}]
      /\ MetricsNext
  BY <1>1, FinishFacts
<1>3. GatewayTypes'
  BY <1>2 DEF GatewayTypes
<1>4. \A q \in Requests \ {r} : Apart(q)
  BY <1>2 DEF Apart, GatewayTypes
<1>5. /\ age[r] \in Int /\ readyAt'[r] \in Int /\ readyAt'[r] <= age[r] /\ ProverTimeout \in Nat
      /\ route[r] \in {"claim", "proof"} => age[r] <= readyAt'[r] + ProverTimeout
  BY TimeAssumption DEF GatewayTypes, Fine
<1>6. Fine(r)'
  BY <1>2, <1>5 DEF Fine
<1>7. QED
  BY <1>2, <1>3, <1>4, <1>6, ApartIsFine

\* What a handler goes on to, if the request is fine there.
LEMMA ContinueIsFine ==
    ASSUME GatewayInv, NEW r \in Requests, NEW next \in Doings \ {"-"}, doing[r] \notin {"-"},
           Continue(r, next), readyAt' \in {readyAt, [readyAt EXCEPT ![r] = age[r]]},
           next \in {"body", "store", "verify", "prover"},
           next = "body" => route[r] \in {"claim", "proof", "store"},
           next = "store" => route[r] = "store",
           next \in {"verify", "prover"} => route[r] \in {"claim", "proof"} /\ age[r] = readyAt'[r],
           next = "prover" => remote
    PROVE  GatewayTypes' /\ (\A q \in Requests : Fine(q)') /\ [MetricsNext]_metricsVars
<1> USE DEF GatewayInv
<1>1. /\ doing' = [doing EXCEPT ![r] = next]
      /\ UNCHANGED <<metricsVars, remote, server, drain, route, body, age, judged, answer>>
  BY DEF Continue
<1>2. GatewayTypes'
  BY <1>1 DEF GatewayTypes, Doings
<1>3. \A q \in Requests \ {r} : Apart(q)
  BY <1>1 DEF Apart, GatewayTypes, metricsVars
<1>4. /\ age[r] \in Int /\ readyAt'[r] \in Int /\ readyAt'[r] <= age[r] /\ ProverTimeout \in Nat \ {0}
      /\ doing'[r] = next
  BY <1>1, TimeAssumption DEF GatewayTypes, Fine
<1>5. Fine(r) /\ at'[r] = at[r] /\ at[r] = "inside" /\ answer[r] = None /\ answer'[r] = None /\ None # "valid"
  BY <1>1, TimeAssumption DEF Fine, metricsVars, Answers
<1>6. Fine(r)'
  BY <1>1, <1>4, <1>5 DEF Fine
<1>7. QED
  BY <1>1, <1>2, <1>3, <1>6, ApartIsFine

LEMMA HandlersAreFine ==
    ASSUME GatewayInv, NEW r \in Requests,
           \/ Limited(r) \/ CheckKey(r) \/ ReadBody(r) \/ CallStore(r)
           \/ Verify(r) \/ ProverAnswers(r) \/ ProverFails(r)
    PROVE  GatewayTypes' /\ (\A q \in Requests : Fine(q)') /\ [MetricsNext]_metricsVars
<1> USE DEF GatewayInv
<1> /\ Fine(r) /\ age[r] \in Nat /\ readyAt[r] \in Nat /\ ProverTimeout \in Nat \ {0}
    /\ readyAt \in [Requests -> 0 .. RequestTimeout]
  BY TimeAssumption DEF GatewayTypes
<1> {"200", "valid", "invalid", "400", "401", "429", "500", "502"} = Answers
  BY AnswersAre
<1>1. CASE Limited(r)
  BY <1>1, FinishIsFine DEF Limited, Fine
<1>2. CASE CheckKey(r)
  <2>1. CASE Finish(r, "401") /\ readyAt' = [readyAt EXCEPT ![r] = age[r]]
    BY <2>1, FinishIsFine
  <2>2. CASE Continue(r, "body") /\ UNCHANGED readyAt
    BY <1>2, <2>2, ContinueIsFine DEF CheckKey, Fine, Doings
  <2>3. QED
    BY <1>2, <2>1, <2>2 DEF CheckKey
<1>3. CASE ReadBody(r)
  <2>1. readyAt' = [readyAt EXCEPT ![r] = age[r]] /\ readyAt'[r] = age[r]
    BY <1>3 DEF ReadBody
  <2>2. CASE Finish(r, "400")
    BY <2>1, <2>2, FinishIsFine
  <2>3. CASE Continue(r, IF route[r] = "store" THEN "store" ELSE "verify")
    BY <1>3, <2>1, <2>3, ContinueIsFine DEF ReadBody, Fine, Doings
  <2>4. QED
    BY <1>3, <2>2, <2>3 DEF ReadBody
<1>4. CASE CallStore(r)
  BY <1>4, FinishIsFine DEF CallStore, Fine
<1>5. CASE Verify(r)
  <2>1. doing[r] = "verify" /\ UNCHANGED readyAt
    BY <1>5 DEF Verify
  <2>2. CASE LocalAnswer(r) = None
    <3>1. Continue(r, "prover") /\ remote
      BY <1>5, <2>2, TimeAssumption DEF Verify, LocalAnswer
    <3>2. QED
      BY <2>1, <3>1, ContinueIsFine DEF Fine, Doings
  <2>3. CASE LocalAnswer(r) # None
    <3>1. Finish(r, LocalAnswer(r)) /\ LocalAnswer(r) \in Answers
      BY <1>5, <2>3, AnswersAre DEF Verify
    <3>2. LocalAnswer(r) = "valid" => ~remote /\ body[r] = "shaped"
      BY <2>3, <2>1 DEF LocalAnswer, Fine
    <3>3. route[r] \in {"claim", "proof"} => age[r] <= readyAt[r] + ProverTimeout
      BY <2>1 DEF Fine
    <3>4. QED
      BY <2>1, <3>1, <3>2, <3>3, FinishIsFine
  <2>4. QED
    BY <2>2, <2>3
<1>6. CASE ProverAnswers(r)
  <2>1. doing[r] = "prover" /\ UNCHANGED readyAt /\ Finish(r, ProverVerdict(r)) /\ ProverVerdict(r) \in Answers
    BY <1>6, AnswersAre DEF ProverAnswers
  <2>2. ProverVerdict(r) = "valid" => judged[r] = "valid"
    BY DEF ProverVerdict
  <2>3. remote /\ age[r] <= readyAt[r] + ProverTimeout
    BY <2>1 DEF Fine
  <2>4. QED
    BY <2>1, <2>2, <2>3, FinishIsFine
<1>7. CASE ProverFails(r)
  <2>1. age[r] <= readyAt[r] + ProverTimeout
    BY <1>7 DEF Fine, ProverFails
  <2>2. Finish(r, IF route[r] = "proof" THEN "502" ELSE "invalid") /\ UNCHANGED readyAt
    BY <1>7 DEF ProverFails
  <2>3. QED
    BY <2>1, <2>2, FinishIsFine
<1>8. QED
  BY <1>1, <1>2, <1>3, <1>4, <1>5, <1>6, <1>7

LEMMA OthersAreFine ==
    ASSUME GatewayInv, NEW r \in Requests,
           \/ \E where \in Kinds[r] : \E b \in BodiesOf[where] : Accept(r, where, b)
           \/ \E v \in {"valid", "invalid", "error"} : Judge(r, v)
           \/ Begin(r) \/ Crash(r) \/ LoadCounter(r) \/ CountUp(r) \/ Reply(r)
    PROVE  GatewayTypes' /\ (\A q \in Requests : Fine(q)') /\ [MetricsNext]_metricsVars
<1> USE DEF GatewayInv
<1> MetricsTypeOK
  BY DEF MetricsInv, Balanced
<1> /\ Fine(r) /\ age[r] \in Nat /\ readyAt[r] \in Nat /\ ProverTimeout \in Nat \ {0}
    /\ None # "valid" /\ 0 \in 0 .. RequestTimeout
  BY TimeAssumption DEF GatewayTypes, Answers
<1>1. CASE \E where \in Kinds[r] : \E b \in BodiesOf[where] : Accept(r, where, b)
  <2> PICK where \in Kinds[r] : \E b \in BodiesOf[where] : Accept(r, where, b)
    BY <1>1
  <2>1. PICK b \in BodiesOf[where] : Accept(r, where, b)
    OBVIOUS
  <2>2. where \in Routes /\ b \in Bodies
    <3>1. where \in Routes
      BY TimeAssumption
    <3>2. b \in Bodies
      BY <3>1 DEF BodiesOf, Bodies, Routes
    <3>3. QED
      BY <3>1, <3>2
  <2>3. MetricsNext
    BY <2>1 DEF Accept, MetricsNext
  <2>4. GatewayTypes'
    BY <2>1, <2>2 DEF Accept, GatewayTypes
  <2>5. \A q \in Requests \ {r} : Apart(q)
    BY <2>1 DEF Accept, Arrive, Pass, Apart, GatewayTypes, MetricsTypeOK
  <2>6. Fine(r)'
    <3>1. /\ at[r] = "away" /\ at'[r] = "arriving" /\ route'[r] = where /\ age[r] = 0
          /\ UNCHANGED <<doing, age, readyAt, answer>>
      BY <2>1 DEF Accept, Arrive, Pass, Fine, GatewayTypes, MetricsTypeOK
    <3>2. QED
      BY <2>2, <3>1 DEF Fine
  <2>7. QED
    BY <2>3, <2>4, <2>5, <2>6, ApartIsFine
<1>2. CASE \E v \in {"valid", "invalid", "error"} : Judge(r, v)
  <2>1. PICK v \in {"valid", "invalid", "error"} : Judge(r, v)
    BY <1>2
  <2>2. UNCHANGED metricsVars
    BY <2>1 DEF Judge
  <2>3. GatewayTypes'
    BY <2>1 DEF Judge, GatewayTypes
  <2>4. \A q \in Requests \ {r} : Apart(q)
    BY <2>1 DEF Judge, Apart, GatewayTypes, metricsVars
  <2>5. Fine(r)'
    BY <2>1 DEF Judge, Fine, metricsVars
  <2>6. QED
    BY <2>2, <2>3, <2>4, <2>5, ApartIsFine
<1>3. CASE Begin(r)
  <2>1. /\ Enter(r) /\ doing' = [doing EXCEPT ![r] = FirstDoing[route[r]]]
        /\ UNCHANGED <<remote, server, drain, route, body, age, readyAt, judged, answer>>
    BY <1>3 DEF Begin
  <2>2. /\ at[r] = "arriving" /\ route[r] \in Routes /\ age[r] = 0 /\ answer[r] = None
        /\ at' = [at EXCEPT ![r] = "inside"] /\ UNCHANGED took
    BY <2>1 DEF Enter, Pass, Fine
  <2>3. /\ route[r] = "claim" => doing' = [doing EXCEPT ![r] = "key"]
        /\ route[r] \in {"proof", "store"} => doing' = [doing EXCEPT ![r] = "body"]
        /\ route[r] = "metrics" => doing' = [doing EXCEPT ![r] = "load"]
    <3>1. /\ FirstDoing["claim"] = "key" /\ FirstDoing["metrics"] = "load"
          /\ FirstDoing["proof"] = "body" /\ FirstDoing["store"] = "body"
      BY DEF FirstDoing
    <3>2. QED
      BY <2>1, <3>1
  <2>4. MetricsNext
    BY <2>1 DEF MetricsNext
  <2>5. GatewayTypes'
    BY <2>1, <2>2, <2>3 DEF GatewayTypes, Doings, Routes
  <2>6. \A q \in Requests \ {r} : Apart(q)
    BY <2>1, <2>2 DEF Apart, GatewayTypes, MetricsTypeOK
  <2>7. at'[r] = "inside" /\ doing'[r] \in {"key", "body", "load"}
        /\ (doing'[r] = "load" => route[r] = "metrics") /\ (doing'[r] = "key" => route[r] = "claim")
        /\ (doing'[r] = "body" => route[r] \in {"claim", "proof", "store"})
    BY <2>2, <2>3 DEF GatewayTypes, MetricsTypeOK, Routes
  <2>8. Fine(r)'
    BY <2>1, <2>2, <2>7 DEF Fine
  <2>9. QED
    BY <2>4, <2>5, <2>6, <2>8, ApartIsFine
<1>4. CASE Crash(r)
  <2>1. /\ Panic(r) /\ doing' = [doing EXCEPT ![r] = "-"]
        /\ readyAt' = IF doing[r] \in {"key", "body"} THEN [readyAt EXCEPT ![r] = age[r]] ELSE readyAt
        /\ UNCHANGED <<remote, server, drain, route, body, age, judged, answer>>
    BY <1>4 DEF Crash
  <2>2. at[r] = "inside" /\ at' = [at EXCEPT ![r] = "leaving"] /\ UNCHANGED took /\ answer[r] = None
        /\ doing[r] \in Doings
    BY <2>1 DEF Panic, Fine, GatewayTypes
  <2>3. MetricsNext
    BY <2>1 DEF MetricsNext
  <2>4. GatewayTypes'
    BY <2>1 DEF GatewayTypes, Doings
  <2>5. \A q \in Requests \ {r} : Apart(q)
    BY <2>1, <2>2 DEF Apart, GatewayTypes, MetricsTypeOK
  <2>6. /\ at'[r] = "leaving" /\ doing'[r] = "-" /\ readyAt'[r] <= age[r] /\ readyAt'[r] \in Nat
        /\ route[r] \in {"claim", "proof"} => age[r] <= readyAt'[r] + ProverTimeout
    BY <2>1, <2>2 DEF GatewayTypes, MetricsTypeOK, Fine, Doings
  <2>7. Fine(r)'
    BY <2>1, <2>2, <2>6 DEF Fine
  <2>8. QED
    BY <2>3, <2>4, <2>5, <2>7, ApartIsFine
<1>5. CASE LoadCounter(r)
  <2>1. CASE (\E n \in Names : Load(r, n)) /\ UNCHANGED gatewayVars
    <3>1. MetricsNext
      BY <2>1 DEF MetricsNext
    <3>2. UNCHANGED <<remote, server, drain, route, body, doing, age, readyAt, judged, answer, at, took>>
      BY <2>1 DEF Load, gatewayVars
    <3>3. QED
      BY <3>1, <3>2 DEF GatewayTypes, Fine
  <2>2. CASE Finish(r, "200") /\ UNCHANGED readyAt
    BY <1>5, <2>2, AnswersAre, FinishIsFine DEF LoadCounter, Fine
  <2>3. QED
    BY <1>5, <2>1, <2>2 DEF LoadCounter
<1>6. CASE CountUp(r)
  <2>1. /\ CountResponse(r) \/ AddLatency(r) \/ CountError(r)
        /\ UNCHANGED <<remote, server, drain, route, body, doing, age, readyAt, judged, answer, took>>
        /\ \A q \in Requests \ {r} : at'[q] = at[q]
        /\ {at[r], at'[r]} \subseteq {"returned", "answered", "timed", "leaving"}
    BY <1>6 DEF CountUp, CountResponse, AddLatency, CountError, Pass, gatewayVars, MetricsTypeOK
  <2>2. MetricsNext
    BY <2>1 DEF MetricsNext
  <2>3. Fine(r)'
    BY <2>1 DEF Fine
  <2>4. QED
    BY <2>1, <2>2, <2>3, ApartIsFine DEF GatewayTypes, Apart
<1>7. CASE Reply(r)
  <2>1. MetricsNext
    BY <1>7 DEF Reply, MetricsNext
  <2>2. GatewayTypes'
    BY <1>7 DEF Reply, GatewayTypes
  <2>3. \A q \in Requests \ {r} : Apart(q)
    BY <1>7 DEF Reply, Leave, Apart, GatewayTypes, MetricsTypeOK
  <2>4. /\ at'[r] = "gone" /\ doing'[r] = doing[r] /\ doing[r] = "-" /\ age'[r] = 0 /\ readyAt'[r] = 0
        /\ answer'[r] = None
    BY <1>7 DEF Reply, Leave, Fine, GatewayTypes, MetricsTypeOK
  <2>5. Fine(r)'
    BY <2>4 DEF Fine
  <2>6. QED
    BY <2>1, <2>2, <2>3, <2>5, ApartIsFine
<1>8. QED
  BY <1>1, <1>2, <1>3, <1>4, <1>5, <1>6, <1>7

LEMMA TimeIsFine ==
    ASSUME GatewayInv, Tick \/ Signal \/ Stop
    PROVE  GatewayTypes' /\ (\A q \in Requests : Fine(q)') /\ [MetricsNext]_metricsVars
<1> USE DEF GatewayInv
<1>1. UNCHANGED metricsVars
  BY DEF Tick, Signal, Stop
<1>2. CASE Tick
  <2>1. ASSUME NEW r \in Requests
        PROVE  age'[r] \in 0 .. RequestTimeout /\ Fine(r)'
    <3>1. CASE ~InHand(r)
      BY <1>1, <1>2, <3>1 DEF Tick, Fine, GatewayTypes, InHand, metricsVars
    <3>2. CASE InHand(r)
      <4>1. Waiting(r) /\ age'[r] = age[r] + 1 /\ age[r] \in Nat /\ readyAt[r] \in Nat
            /\ {ReadTimeout, RequestTimeout, ProverTimeout} \subseteq Nat /\ ReadTimeout <= RequestTimeout
        BY <1>2, <3>2, TimeAssumption DEF Tick, GatewayTypes
      <4>2. age[r] < RequestTimeout /\ doing[r] \in {"body", "key", "store", "prover"}
            /\ (doing[r] = "prover" => age[r] < readyAt[r] + ProverTimeout)
        BY <4>1 DEF Waiting, ContextOver, ProverOver
      <4>3. at[r] = "inside" /\ answer[r] = None /\ None # "valid"
        BY <4>2, TimeAssumption DEF Fine, Answers
      <4>4. /\ UNCHANGED <<at, took, remote, route, body, doing, readyAt, judged, answer>>
        BY <1>1, <1>2 DEF Tick, metricsVars
      <4>5. QED
        BY <4>1, <4>2, <4>3, <4>4 DEF Fine
    <3>3. QED
      BY <3>1, <3>2
  <2>2. age' \in [Requests -> 0 .. RequestTimeout]
    BY <1>2, <2>1 DEF Tick
  <2>3. drain' \in 0 .. DrainTimeout
    BY <1>2, TimeAssumption DEF Tick, GatewayTypes
  <2>4. GatewayTypes'
    BY <1>2, <2>2, <2>3 DEF Tick, GatewayTypes
  <2>5. QED
    BY <1>1, <2>1, <2>4
<1>3. CASE Signal \/ Stop
  BY <1>1, <1>3 DEF Signal, Stop, GatewayTypes, Fine, metricsVars
<1>4. QED
  BY <1>2, <1>3

LEMMA GatewayStep ==
    ASSUME GatewayInv, [Next]_vars
    PROVE  GatewayInv' /\ [MetricsNext]_metricsVars
<1>1. GatewayTypes' /\ (\A q \in Requests : Fine(q)') /\ [MetricsNext]_metricsVars
  <2>1. CASE UNCHANGED vars
    BY <2>1 DEF vars, gatewayVars, metricsVars, GatewayInv, GatewayTypes, Fine
  <2>2. CASE Next
    BY <2>2, HandlersAreFine, OthersAreFine, TimeIsFine DEF Next, Run
  <2>3. QED
    BY <2>1, <2>2
<1>2. MetricsInv'
  BY <1>1, MetricsInductive DEF GatewayInv
<1>3. QED
  BY <1>1, <1>2 DEF GatewayInv

LEMMA GatewayStart == Init => GatewayInv /\ MetricsInit
<1> SUFFICES ASSUME Init PROVE GatewayInv
  BY DEF Init
<1>1. MetricsInv
  BY MetricsStart DEF Init
<1>2. GatewayTypes
  BY TimeAssumption DEF Init, GatewayTypes, Doings
<1>3. \A r \in Requests : Fine(r)
  BY TimeAssumption DEF Init, MetricsInit, Fine, Answers
<1>4. QED
  BY <1>1, <1>2, <1>3 DEF GatewayInv

LEMMA GatewayAlways == Spec => []GatewayInv
BY GatewayStart, GatewayStep, PTL DEF Spec

-----------------------------------------------------------------------------
(* The theorems. *)

\* A gateway's requests move the counters as Metrics says.
THEOREM GatewayImplementsMetrics == Spec => MetricsSpec
<1>1. GatewayInv /\ [Next]_vars => [MetricsNext]_metricsVars
  BY GatewayStep
<1>2. QED
  BY <1>1, GatewayStart, GatewayAlways, PTL DEF Spec, MetricsSpec

\* So what /metrics reports makes sense whatever the gateway's requests do.
THEOREM GatewayReportsHonestly == Spec => []HonestReport
<1>1. MetricsSpec => []HonestReport
  BY ReportsAreHonest
<1>2. QED
  BY <1>1, GatewayImplementsMetrics

\* The counters stay balanced, and no request is ever past its limits.
THEOREM AlwaysConsistent == Spec => []Consistent
<1>1. GatewayInv => Consistent
  BY DEF GatewayInv, MetricsInv, GatewayTypes, Fine, Consistent
<1>2. QED
  BY <1>1, GatewayAlways, PTL

\* No claim is answered valid unless the prover said so in time, or, in local
\* mode, the proof has its shape.
THEOREM ClaimsFailClosed == Spec => []FailsClosed
<1>1. GatewayInv => FailsClosed
  BY DEF GatewayInv, Fine, FailsClosed
<1>2. QED
  BY <1>1, GatewayAlways, PTL

\* Only what came late to the prover loses its answer to the write deadline.
THEOREM AnswersLostForCause == Spec => []LostForCause
<1>1. GatewayInv => LostForCause
  BY TimeAssumption DEF GatewayInv, GatewayTypes, Fine, LostForCause, TooLate
<1>2. QED
  BY <1>1, GatewayAlways, PTL

\* Under every order of the timeouts TimeAssumption admits, a shutdown spares
\* what it found in hand.
THEOREM ShutdownSpares == Spec => DrainSpares
<1>1. GatewayInv /\ [Next]_vars =>
        [server' = "stopped" => \A r \in Requests : InHand(r) => age[r] <= drain]_vars
  <2> SUFFICES ASSUME GatewayInv, Next, server' = "stopped"
               PROVE  \A r \in Requests : InHand(r) => age[r] <= drain
    OBVIOUS
  <2>1. Stop
    BY DEF Next, Accept, Judge, Limited, Crash, Run, Begin, CheckKey, ReadBody, CallStore, LoadCounter,
           Verify, ProverAnswers, ProverFails, CountUp, Reply, Tick, Signal, Up, Finish, Continue, gatewayVars
  <2>2. CASE MayForce
    BY <2>2, TimeAssumption DEF MayForce, GatewayInv, GatewayTypes
  <2>3. CASE NothingInHand
    BY <2>3 DEF NothingInHand
  <2>4. QED
    BY <2>1, <2>2, <2>3 DEF Stop
<1>2. QED
  BY <1>1, GatewayAlways, PTL DEF Spec, DrainSpares
=============================================================================
