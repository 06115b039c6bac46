-------------------------- MODULE NodeHealthProofs --------------------------
(***************************************************************************)
(* Theorems about NodeHealth, for any modules, keys and bounds.            *)
(***************************************************************************)
EXTENDS NodeHealth, FiniteSetTheorems, SequenceTheorems, TLAPS

-----------------------------------------------------------------------------
(* Bounded lists.                                                           *)

(* A deque keeps the end of what was put into it, up to its bound.          *)
LEMMA KeepLastKeepsEnd ==
  ASSUME NEW S, NEW list \in Seq(S), NEW max \in Nat
  PROVE  LET kept == KeepLast(list, max)
             cut  == Len(list) - Len(kept)
         IN  /\ kept \in Seq(S)
             /\ Len(kept) <= max /\ Len(kept) <= Len(list)
             /\ Len(list) <= max => kept = list
             /\ Len(list) > max => Len(kept) = max
             /\ \A n \in 1..Len(kept) : kept[n] = list[n + cut]
  <1>1. CASE Len(list) > max
    <2>1. KeepLast(list, max) = SubSeq(list, Len(list) - max + 1, Len(list))
      BY <1>1 DEF KeepLast
    <2> QED BY <1>1, <2>1
  <1>2. CASE Len(list) <= max
    <2>1. KeepLast(list, max) = list
      BY <1>2 DEF KeepLast
    <2> QED BY <1>2, <2>1
  <1> QED BY <1>1, <1>2

(* Appending to a bounded list: the new element is last, unless the bound   *)
(* is zero, and at most one element goes.                                   *)
LEMMA AppendKept ==
  ASSUME NEW S, NEW list \in Seq(S), NEW x \in S, NEW max \in Nat, Len(list) <= max
  PROVE  LET kept == KeepLast(Append(list, x), max)
             cut  == Len(list) + 1 - Len(kept)
         IN  /\ kept \in Seq(S) /\ Len(kept) <= max
             /\ cut \in {0, 1} /\ (cut = 1 => Len(list) = max) /\ (cut = 0 => Len(list) < max)
             /\ \A n \in 1..Len(kept) :
                  kept[n] = IF n + cut = Len(list) + 1 THEN x ELSE list[n + cut]
  <1> DEFINE more == Append(list, x)
             kept == KeepLast(more, max)
             cut  == Len(list) + 1 - Len(kept)
  <1>1. /\ more \in Seq(S) /\ Len(more) = Len(list) + 1
        /\ \A n \in 1..Len(more) : more[n] = IF n = Len(list) + 1 THEN x ELSE list[n]
    OBVIOUS
  <1>2. /\ kept \in Seq(S) /\ Len(kept) <= max /\ Len(kept) <= Len(more)
        /\ Len(more) <= max => kept = more
        /\ Len(more) > max => Len(kept) = max
        /\ \A n \in 1..Len(kept) : kept[n] = more[n + (Len(more) - Len(kept))]
    <2> HIDE DEF more
    <2> QED BY <1>1, KeepLastKeepsEnd
  <1>3. Len(kept) \in Nat /\ Len(list) \in Nat
    BY <1>2
  <1>4. cut \in {0, 1} /\ (cut = 1 => Len(list) = max) /\ (cut = 0 => Len(list) < max)
    <2> HIDE DEF more, kept
    <2>1. CASE Len(more) <= max
      BY <1>1, <1>3, <1>2, <2>1 DEF cut
    <2>2. CASE Len(more) > max
      BY <1>1, <1>3, <1>2, <2>2 DEF cut
    <2> QED BY <1>1, <1>3, <2>1, <2>2
  <1>5. ASSUME NEW n \in 1..Len(kept)
        PROVE  kept[n] = IF n + cut = Len(list) + 1 THEN x ELSE list[n + cut]
    <2> HIDE DEF more, kept
    <2>1. n + cut \in 1..Len(more) /\ n + (Len(more) - Len(kept)) = n + cut
      BY <1>1, <1>3, <1>4 DEF cut
    <2> QED BY <1>1, <1>2, <2>1
  <1> QED BY <1>2, <1>4, <1>5

-----------------------------------------------------------------------------
(* Diagnostics.                                                             *)

LEMMA GroupsNat ==
  ASSUME NEW list \in Seq(Event), NEW p \in Problems
  PROVE  /\ Groups(list, p) \in Nat
         /\ Groups(list, p) = 0 <=> ~Has(list, {p})
  <1> DEFINE places == {i \in 1..Len(list) : list[i][1] = p}
             keys   == {list[n][2] : n \in places}
  <1>1. IsFiniteSet(places)
    <2>1. IsFiniteSet(1..Len(list))
      BY FS_Interval
    <2> QED BY <2>1, FS_Subset
  <1>2. IsFiniteSet(keys)
    <2> DEFINE key == [n \in places |-> list[n][2]]
    <2>1. key \in Surjection(places, keys)
      BY DEF Surjection
    <2> HIDE DEF places, keys, key
    <2> QED BY <1>1, <2>1, FS_Surjection
  <1>3. Cardinality(keys) \in Nat /\ (Cardinality(keys) = 0 <=> keys = {})
    <2> HIDE DEF keys
    <2> QED BY <1>2, FS_CardinalityType, FS_EmptySet
  <1>4. keys = {} <=> ~Has(list, {p})
    BY DEF Has
  <1> QED BY <1>3, <1>4 DEF Groups

(* What is derived, by its length and its end.                              *)
LEMMA DerivedShape ==
  ASSUME NEW offline, IsFiniteSet(offline), NEW list \in Seq(Event)
  PROVE  LET codes == Derived(offline, list)
         IN  /\ codes \in Seq(Codes)
             /\ Len(codes) = 0 <=> offline = {} /\ ~Has(list, Problems)
             /\ Has(list, {"error", "failure"}) =>
                  Len(codes) > 0 /\ Severity(codes[Len(codes)]) = "error"
             /\ ~Has(list, {"error", "failure"}) =>
                  \A n \in 1..Len(codes) : Severity(codes[n]) = "warning"
  <1> DEFINE a == Cardinality(offline)
             b == Groups(list, "timeout")
             c == Groups(list, "error")
             d == Groups(list, "failure")
             A == Repeat("MODULE_OFFLINE", a)
             B == Repeat("REQUEST_TIMEOUT", b)
             C == Repeat("HANDLER_ERROR", c)
             D == Repeat("DELIVERY_FAILURE", d)
  <1>1. /\ a \in Nat /\ b \in Nat /\ c \in Nat /\ d \in Nat
        /\ a = 0 <=> offline = {}
        /\ b = 0 <=> ~Has(list, {"timeout"})
        /\ c = 0 <=> ~Has(list, {"error"})
        /\ d = 0 <=> ~Has(list, {"failure"})
    <2>1. {"timeout", "error", "failure"} = Problems
      BY DEF Problems
    <2> QED BY <2>1, GroupsNat, FS_CardinalityType, FS_EmptySet
  <1> HIDE DEF a, b, c, d
  <1>2. /\ A \in Seq(Codes) /\ Len(A) = a /\ \A n \in 1..a : A[n] = "MODULE_OFFLINE"
        /\ B \in Seq(Codes) /\ Len(B) = b /\ \A n \in 1..b : B[n] = "REQUEST_TIMEOUT"
        /\ C \in Seq(Codes) /\ Len(C) = c /\ \A n \in 1..c : C[n] = "HANDLER_ERROR"
        /\ D \in Seq(Codes) /\ Len(D) = d /\ \A n \in 1..d : D[n] = "DELIVERY_FAILURE"
    <2>1. ASSUME NEW code \in Codes, NEW n \in Nat
          PROVE  /\ Repeat(code, n) \in Seq(Codes) /\ Len(Repeat(code, n)) = n
                 /\ \A i \in 1..n : Repeat(code, n)[i] = code
      BY DEF Repeat
    <2>2. {"MODULE_OFFLINE", "REQUEST_TIMEOUT", "HANDLER_ERROR", "DELIVERY_FAILURE"} = Codes
      BY DEF Codes
    <2> HIDE DEF Codes
    <2> QED BY <1>1, <2>1, <2>2
  <1> HIDE DEF A, B, C, D
  <1> DEFINE AB == A \o B
             ABC == AB \o C
             codes == ABC \o D
  <1>3. /\ AB \in Seq(Codes) /\ Len(AB) = a + b
        /\ \A n \in 1..(a + b) : AB[n] \in {"MODULE_OFFLINE", "REQUEST_TIMEOUT"}
    <2>1. A \in Seq(Codes) /\ B \in Seq(Codes)
      BY <1>2
    <2>2. /\ AB \in Seq(Codes) /\ Len(AB) = Len(A) + Len(B)
          /\ \A n \in 1..Len(A) + Len(B) :
               AB[n] = IF n <= Len(A) THEN A[n] ELSE B[n - Len(A)]
      BY <2>1, ConcatProperties
    <2> HIDE DEF AB
    <2> QED BY <1>1, <1>2, <2>1, <2>2
  <1> HIDE DEF AB
  <1>4. /\ ABC \in Seq(Codes) /\ Len(ABC) = a + b + c
        /\ c > 0 => ABC[a + b + c] = "HANDLER_ERROR"
        /\ c = 0 => \A n \in 1..(a + b) : ABC[n] \in {"MODULE_OFFLINE", "REQUEST_TIMEOUT"}
    <2>1. AB \in Seq(Codes) /\ C \in Seq(Codes)
      BY <1>2, <1>3
    <2>2. /\ ABC \in Seq(Codes) /\ Len(ABC) = Len(AB) + Len(C)
          /\ \A n \in 1..Len(AB) + Len(C) :
               ABC[n] = IF n <= Len(AB) THEN AB[n] ELSE C[n - Len(AB)]
      BY <2>1, ConcatProperties
    <2> HIDE DEF ABC
    <2> QED BY <1>1, <1>2, <1>3, <2>1, <2>2
  <1> HIDE DEF ABC
  <1>5. /\ codes \in Seq(Codes) /\ Len(codes) = a + b + c + d
        /\ d > 0 => codes[a + b + c + d] = "DELIVERY_FAILURE"
        /\ d = 0 /\ c > 0 => codes[a + b + c] = "HANDLER_ERROR"
        /\ d = 0 /\ c = 0 =>
             \A n \in 1..(a + b) : codes[n] \in {"MODULE_OFFLINE", "REQUEST_TIMEOUT"}
    <2>1. ABC \in Seq(Codes) /\ D \in Seq(Codes)
      BY <1>2, <1>4
    <2>2. /\ codes \in Seq(Codes) /\ Len(codes) = Len(ABC) + Len(D)
          /\ \A n \in 1..Len(ABC) + Len(D) :
               codes[n] = IF n <= Len(ABC) THEN ABC[n] ELSE D[n - Len(ABC)]
      BY <2>1, ConcatProperties
    <2> HIDE DEF codes
    <2> QED BY <1>1, <1>2, <1>4, <2>1, <2>2
  <1>6. Derived(offline, list) = codes
    BY DEF Derived, codes, ABC, AB, A, B, C, D, a, b, c, d
  <1> HIDE DEF codes
  <1>7. /\ Has(list, {"error", "failure"}) <=> ~(c = 0 /\ d = 0)
        /\ Has(list, Problems) <=> ~(b = 0 /\ c = 0 /\ d = 0)
    <2>1. /\ Has(list, {"error", "failure"}) <=> Has(list, {"error"}) \/ Has(list, {"failure"})
          /\ Has(list, Problems) <=>
               Has(list, {"timeout"}) \/ Has(list, {"error"}) \/ Has(list, {"failure"})
      BY DEF Has, Problems
    <2> QED BY <1>1, <2>1
  <1>8. /\ Severity("HANDLER_ERROR") = "error" /\ Severity("DELIVERY_FAILURE") = "error"
        /\ Severity("MODULE_OFFLINE") = "warning" /\ Severity("REQUEST_TIMEOUT") = "warning"
    BY DEF Severity
  <1>9. Len(codes) = 0 <=> offline = {} /\ ~Has(list, Problems)
    BY <1>1, <1>5, <1>7
  <1>10. ASSUME Has(list, {"error", "failure"})
         PROVE  Len(codes) > 0 /\ Severity(codes[Len(codes)]) = "error"
    <2>1. CASE d > 0
      BY <1>1, <1>5, <1>8, <2>1
    <2>2. CASE d = 0
      <3>1. c > 0
        BY <1>1, <1>7, <1>10, <2>2
      <3> QED BY <1>1, <1>5, <1>8, <2>2, <3>1
    <2> QED BY <1>1, <2>1, <2>2
  <1>11. ASSUME ~Has(list, {"error", "failure"})
         PROVE  \A n \in 1..Len(codes) : Severity(codes[n]) = "warning"
    BY <1>1, <1>5, <1>7, <1>8, <1>11
  <1> QED BY <1>5, <1>6, <1>9, <1>10, <1>11

(* The bounded list of codes: the verdict is that of all that was derived.  *)
LEMMA VerdictOfDiagnosed ==
  ASSUME HealthAssumption,
         NEW offline, IsFiniteSet(offline), NEW list \in Seq(Event)
  PROVE  LET codes == Diagnosed(offline, list)
         IN  /\ codes \in Seq(Codes) /\ Len(codes) <= MaxDiagnostics
             /\ Verdict(codes) \in {"healthy", "degraded", "unhealthy"}
             /\ Verdict(codes) = "unhealthy" <=> Has(list, {"error", "failure"})
             /\ Verdict(codes) = "healthy" <=> ~Has(list, Problems) /\ offline = {}
  <1> DEFINE all   == Derived(offline, list)
             codes == KeepLast(all, MaxDiagnostics)
             severities == {Severity(codes[n]) : n \in 1..Len(codes)}
  <1>1. /\ all \in Seq(Codes)
        /\ Len(all) = 0 <=> offline = {} /\ ~Has(list, Problems)
        /\ Has(list, {"error", "failure"}) =>
             Len(all) > 0 /\ Severity(all[Len(all)]) = "error"
        /\ ~Has(list, {"error", "failure"}) =>
             \A n \in 1..Len(all) : Severity(all[n]) = "warning"
    BY DerivedShape
  <1> HIDE DEF all
  <1>2. MaxDiagnostics \in Nat /\ MaxDiagnostics > 0
    BY DEF HealthAssumption
  <1>3. /\ codes \in Seq(Codes)
        /\ Len(codes) <= MaxDiagnostics /\ Len(codes) <= Len(all)
        /\ Len(all) <= MaxDiagnostics => codes = all
        /\ Len(all) > MaxDiagnostics => Len(codes) = MaxDiagnostics
        /\ \A n \in 1..Len(codes) : codes[n] = all[n + (Len(all) - Len(codes))]
    BY <1>1, <1>2, KeepLastKeepsEnd
  <1> HIDE DEF codes
  <1>4. Len(codes) = 0 <=> Len(all) = 0
    BY <1>1, <1>2, <1>3
  <1>5. Len(codes) > 0 => codes[Len(codes)] = all[Len(all)]
    BY <1>1, <1>3
  <1>6. \A n \in 1..Len(codes) : n + (Len(all) - Len(codes)) \in 1..Len(all)
    BY <1>1, <1>3
  <1>7. "error" \in severities <=> Has(list, {"error", "failure"})
    <2>1. ASSUME Has(list, {"error", "failure"})
          PROVE  "error" \in severities
      <3>1. Len(codes) > 0
        BY <1>1, <1>3, <1>4, <2>1
      <3>2. Len(codes) \in 1..Len(codes) /\ Severity(codes[Len(codes)]) = "error"
        BY <1>1, <1>3, <1>5, <2>1, <3>1
      <3> QED BY <3>2
    <2>2. ASSUME ~Has(list, {"error", "failure"})
          PROVE  \A n \in 1..Len(codes) : Severity(codes[n]) = "warning"
      BY <1>1, <1>3, <1>6, <2>2
    <2> QED BY <2>1, <2>2
  <1>8. severities \subseteq {"error", "warning"}
    BY DEF Severity
  <1>9. severities = {} <=> Len(codes) = 0
    BY <1>3
  <1>10. Has(list, {"error", "failure"}) => Has(list, Problems)
    BY DEF Has, Problems
  <1>11. Verdict(codes) = IF "error" \in severities THEN "unhealthy"
                          ELSE IF "warning" \in severities THEN "degraded" ELSE "healthy"
    BY DEF Verdict
  <1> HIDE DEF severities
  <1>12. Diagnosed(offline, list) = codes
    BY DEF Diagnosed, codes, all
  <1>13. Verdict(codes) = "unhealthy" <=> Has(list, {"error", "failure"})
    BY <1>7, <1>11
  <1>14. Verdict(codes) = "healthy" <=> ~Has(list, Problems) /\ offline = {}
    <2>1. Verdict(codes) = "healthy" <=> severities = {}
      BY <1>8, <1>11
    <2> QED BY <1>1, <1>4, <1>9, <2>1
  <1>15. Verdict(codes) \in {"healthy", "degraded", "unhealthy"}
    BY <1>11
  <1> QED BY <1>3, <1>12, <1>13, <1>14, <1>15

-----------------------------------------------------------------------------
(* Types, and the verdict.                                                  *)

LEMMA AppendedTyped ==
  ASSUME NEW list \in Seq(Event), Len(list) <= MaxEvents, NEW event \in Event,
         NEW count \in 0..MaxEvents
  PROVE  /\ Appended(list, event) \in Seq(Event) /\ Len(Appended(list, event)) <= MaxEvents
         /\ Since(count, event) \in 0..MaxEvents
  <1>1. MaxEvents \in Nat
    BY HealthAssumption DEF HealthAssumption
  <1>2. Since(count, event) \in 0..MaxEvents
    BY <1>1 DEF Since
  <1> QED BY <1>1, <1>2, AppendKept DEF Appended

(* The events, the totals, the diagnostics and the report keep their types. *)
THEOREM TypeCorrect == Spec => []TypeOK
  <1>0. HealthAssumption
    BY HealthAssumption
  <1>1. Init => TypeOK
    <2> SUFFICES ASSUME Init
                 PROVE  TypeOK
      OBVIOUS
    <2>1. /\ MaxEvents \in Nat /\ MaxRecords \in Nat /\ MaxResets \in Nat
          /\ MaxDiagnostics \in Nat
      BY <1>0 DEF HealthAssumption
    <2>2. reset \in BOOLEAN
      BY DEF Init
    <2>3. totals \in Counts
      BY DEF Init, Counts
    <2> QED BY <2>1, <2>2, <2>3 DEF Init, TypeOK
  <1>2. TypeOK /\ [Next]_vars => TypeOK'
    <2> SUFFICES ASSUME TypeOK, [Next]_vars
                 PROVE  TypeOK'
      OBVIOUS
    <2> USE <1>0 DEF TypeOK
    <2>1. ASSUME NEW event \in Event, Record(event)
          PROVE  TypeOK'
      <3>1. events' \in Seq(Event) /\ Len(events') <= MaxEvents
        BY <2>1, AppendedTyped DEF Record
      <3>2. totals' \in Counts
        BY <2>1 DEF Record, Counts
      <3>3. records' \in 0..MaxRecords /\ quiet' \in 0..MaxEvents
        BY <2>1, AppendedTyped DEF HealthAssumption, Record
      <3> QED BY <2>1, <3>1, <3>2, <3>3 DEF Record, registryVars, reportVars
    <2>13. CASE RecordSampledReply
      <3>1. Plain \in Event
        BY DEF Event
      <3>2. /\ events' \in Seq(Event) /\ Len(events') <= MaxEvents
            /\ quiet' \in 0..MaxEvents
        BY <2>13, <3>1, AppendedTyped DEF RecordSampledReply
      <3>3. records' \in 0..MaxRecords
        BY <2>13 DEF HealthAssumption, RecordSampledReply
      <3> QED BY <2>13, <3>2, <3>3 DEF RecordSampledReply, registryVars, reportVars
    <2>2. CASE Reset
      BY <2>2 DEF HealthAssumption, Reset, Counts, registryVars, reportVars
    <2>3. ASSUME NEW m \in Modules, Seen(m)
          PROVE  TypeOK'
      BY <2>3 DEF Seen, statsVars, reportVars
    <2>4. ASSUME NEW m \in Modules, Unregistered(m)
          PROVE  TypeOK'
      BY <2>4 DEF Unregistered, statsVars, reportVars
    <2>5. ASSUME NEW m \in Modules, FallsSilent(m)
          PROVE  TypeOK'
      BY <2>5 DEF FallsSilent, statsVars, reportVars
    <2>6. CASE GetHealth
      <3>1. status' \in [Modules -> {"unknown", "online", "offline"}]
        BY <2>6 DEF GetHealth
      <3>2. IsFiniteSet(Offline(status'))
        BY FS_Subset DEF Offline, HealthAssumption
      <3>3. /\ diagnostics' \in Seq(Codes) /\ Len(diagnostics') <= MaxDiagnostics
            /\ Verdict(diagnostics') \in {"healthy", "degraded", "unhealthy"}
        BY <2>6, <3>2, VerdictOfDiagnosed DEF GetHealth
      <3>4. Stale \subseteq Modules
        BY DEF Stale
      <3>5. report' \in Report
        <4>1. report' = [status |-> Verdict(diagnostics'), stale |-> Stale, codes |-> diagnostics',
                         offline |-> {}, summary |-> None, details |-> None]
          BY <2>6 DEF GetHealth
        <4> QED BY <3>3, <3>4, <4>1 DEF Report
      <3> QED BY <2>6, <3>1, <3>3, <3>5 DEF GetHealth, statsVars
    <2>7. CASE Summarise
      <3>1. report' \in Report
        BY <2>7 DEF Summarise, Report, Offline
      <3> QED BY <2>7, <3>1 DEF Summarise, registryVars, statsVars
    <2>8. CASE AddDetails
      <3>1. report' \in Report
        BY <2>8 DEF AddDetails, Report
      <3> QED BY <2>8, <3>1 DEF AddDetails, registryVars, statsVars
    <2>9. CASE Respond
      BY <2>9 DEF Respond, registryVars, statsVars
    <2>10. CASE GetDiagnostics
      <3>1. IsFiniteSet(Offline(status))
        BY FS_Subset DEF Offline, HealthAssumption
      <3>2. diagnostics' \in Seq(Codes) /\ Len(diagnostics') <= MaxDiagnostics
        BY <2>10, <3>1, VerdictOfDiagnosed DEF GetDiagnostics
      <3> QED BY <2>10, <3>2 DEF GetDiagnostics, registryVars, statsVars
    <2>11. CASE ClearDiagnostics
      BY <2>11 DEF ClearDiagnostics, registryVars, statsVars, HealthAssumption
    <2>12. CASE UNCHANGED vars
      BY <2>12 DEF vars, registryVars, statsVars, reportVars
    <2> QED BY <2>1, <2>2, <2>3, <2>4, <2>5, <2>6, <2>7, <2>8, <2>9, <2>10, <2>11, <2>12, <2>13
        DEF Next
  <1> QED BY <1>1, <1>2, PTL DEF Spec

(* The status of an answer is the verdict on the events and the registry it *)
(* was derived from: warnings never push an error out of the deque.         *)
THEOREM VerdictCorrect == Spec => []VerdictFollowsEvents
  <1>0. HealthAssumption
    BY HealthAssumption
  <1>1. Init => VerdictFollowsEvents
    BY DEF Init, VerdictFollowsEvents
  <1>2. TypeOK /\ VerdictFollowsEvents /\ [Next]_vars => VerdictFollowsEvents'
    <2> SUFFICES ASSUME TypeOK, VerdictFollowsEvents, [Next]_vars
                 PROVE  VerdictFollowsEvents'
      OBVIOUS
    <2> DEFINE Same == UNCHANGED <<pc, report, taken, status>>
    <2>1. ASSUME Same
          PROVE  VerdictFollowsEvents'
      BY <2>1 DEF VerdictFollowsEvents, Offline, Has
    <2>2. ASSUME pc = "idle", pc' = "idle"
          PROVE  VerdictFollowsEvents'
      BY <2>2 DEF VerdictFollowsEvents
    <2>3. CASE GetHealth
      <3>1. IsFiniteSet(Offline(status')) /\ Offline(status)' = Offline(status')
        BY <1>0, FS_Subset DEF Offline, HealthAssumption
      <3>2. /\ Verdict(diagnostics') = "unhealthy" <=> Has(events, {"error", "failure"})
            /\ Verdict(diagnostics') = "healthy" <=>
                 ~Has(events, Problems) /\ Offline(status') = {}
        BY <1>0, <2>3, <3>1, VerdictOfDiagnosed DEF GetHealth, TypeOK
      <3>3. report'.status = Verdict(diagnostics') /\ taken' = events
        BY <2>3 DEF GetHealth
      <3>4. /\ Has(taken, {"error", "failure"})' = Has(events, {"error", "failure"})
            /\ Has(taken, Problems)' = Has(events, Problems)
        BY <3>3 DEF Has, Problems
      <3> QED BY <3>1, <3>2, <3>3, <3>4 DEF VerdictFollowsEvents
    <2>4. ASSUME Summarise \/ AddDetails
          PROVE  VerdictFollowsEvents'
      <3>1. /\ report'.status = report.status /\ UNCHANGED <<taken, status>>
            /\ pc # "idle"
        BY <2>4 DEF Summarise, AddDetails, registryVars, TypeOK, Report
      <3> QED BY <3>1 DEF VerdictFollowsEvents, Offline, Has
    <2>5. CASE Respond
      BY <2>5 DEF Respond, VerdictFollowsEvents
    <2>6. CASE RecordSampledReply \/ \E event \in Event : Record(event)
      BY <2>1, <2>6 DEF Record, RecordSampledReply, registryVars, reportVars
    <2>7. CASE Reset
      BY <2>1, <2>7 DEF Reset, registryVars, reportVars
    <2>8. CASE \E m \in Modules : Seen(m) \/ Unregistered(m)
      BY <2>2, <2>8 DEF Seen, Unregistered, reportVars
    <2>9. CASE \E m \in Modules : FallsSilent(m)
      BY <2>1, <2>9 DEF FallsSilent, reportVars
    <2>10. CASE GetDiagnostics \/ ClearDiagnostics
      BY <2>1, <2>10 DEF GetDiagnostics, ClearDiagnostics, registryVars
    <2>11. CASE UNCHANGED vars
      BY <2>1, <2>11 DEF vars, registryVars, reportVars
    <2> QED BY <2>3, <2>4, <2>5, <2>6, <2>7, <2>8, <2>9, <2>10, <2>11 DEF Next
  <1> QED BY <1>1, <1>2, TypeCorrect, PTL DEF Spec

-----------------------------------------------------------------------------
(* Errors among the recent events: the last one stands quiet places before  *)
(* the end, and there is none behind it.                                    *)
LastErrorAt(list, q) ==
  /\ q < MaxEvents => q < Len(list) /\ IsError(list[Len(list) - q])
  /\ \A n \in 1..Len(list) : n > Len(list) - q => ~IsError(list[n])

LastError == LastErrorAt(events, quiet)

LEMMA LastErrorAppended ==
  ASSUME NEW list \in Seq(Event), Len(list) <= MaxEvents, NEW q \in 0..MaxEvents,
         NEW event \in Event, LastErrorAt(list, q)
  PROVE  LastErrorAt(Appended(list, event), Since(q, event))
  <1>0. MaxEvents \in Nat
    BY HealthAssumption DEF HealthAssumption
  <1> DEFINE kept == Appended(list, event)
             cut == Len(list) + 1 - Len(kept)
             after == Since(q, event)
  <1>1. /\ kept \in Seq(Event) /\ Len(kept) <= MaxEvents
        /\ cut \in {0, 1} /\ (cut = 1 => Len(list) = MaxEvents)
        /\ cut = 0 => Len(list) < MaxEvents
        /\ \A n \in 1..Len(kept) :
             kept[n] = IF n + cut = Len(list) + 1 THEN event ELSE list[n + cut]
    BY <1>0, AppendKept DEF Appended
  <1> HIDE DEF kept
  <1>2. Len(list) \in Nat /\ Len(kept) \in Nat
    BY <1>1
  <1>3. Len(kept) = Len(list) + 1 - cut
    BY <1>1, <1>2
  <1> HIDE DEF cut
  <1>4. CASE IsError(event)
    <2>1. after = 0
      BY <1>4 DEF Since
    <2>2. 0 < MaxEvents => 0 < Len(kept) /\ IsError(kept[Len(kept)])
      BY <1>0, <1>1, <1>2, <1>3, <1>4
    <2> QED BY <1>2, <2>1, <2>2 DEF LastErrorAt, kept
  <1>5. CASE ~IsError(event)
    <2>1. after = IF q < MaxEvents THEN q + 1 ELSE MaxEvents
      BY <1>5 DEF Since
    <2> HIDE DEF after
    <2>2. ASSUME after < MaxEvents
          PROVE  after < Len(kept) /\ IsError(kept[Len(kept) - after])
      <3>1. after = q + 1 /\ q < MaxEvents
        BY <1>0, <2>1, <2>2
      <3>2. q < Len(list) /\ IsError(list[Len(list) - q])
        BY <3>1 DEF LastErrorAt
      <3>3. after < Len(kept)
        BY <1>0, <1>1, <1>2, <1>3, <2>2, <3>1, <3>2
      <3>4. /\ Len(kept) - after \in 1..Len(kept)
            /\ Len(kept) - after + cut = Len(list) - q
        BY <1>0, <1>1, <1>2, <1>3, <3>1, <3>3
      <3>5. kept[Len(kept) - after] = list[Len(list) - q]
        <4>1. ASSUME NEW n \in 1..Len(kept), n + cut = Len(list) - q
              PROVE  kept[n] = list[Len(list) - q]
          <5>1. n + cut # Len(list) + 1
            BY <1>2, <4>1
          <5> QED BY <1>1, <4>1, <5>1
        <4> QED BY <3>4, <4>1
      <3> QED BY <3>2, <3>3, <3>5
    <2>3. ASSUME NEW n \in 1..Len(kept), n > Len(kept) - after
          PROVE  ~IsError(kept[n])
      <3>1. CASE n + cut = Len(list) + 1
        BY <1>1, <1>5, <3>1
      <3>2. CASE n + cut # Len(list) + 1
        <4>1. n + cut \in 1..Len(list)
          BY <1>1, <1>2, <1>3, <3>2
        <4>2. n + cut > Len(list) - q
          BY <1>0, <1>1, <1>2, <1>3, <2>1, <2>3
        <4>3. kept[n] = list[n + cut]
          BY <1>1, <3>2
        <4> QED BY <4>1, <4>2, <4>3 DEF LastErrorAt
      <3> QED BY <3>1, <3>2
    <2> QED BY <2>2, <2>3 DEF LastErrorAt, kept, after
  <1> QED BY <1>4, <1>5

LEMMA LastErrorStays == TypeOK /\ LastError /\ [Next]_vars => LastError'
  <1> SUFFICES ASSUME TypeOK, LastError, [Next]_vars
               PROVE  LastError'
    OBVIOUS
  <1>0. /\ MaxEvents \in Nat
        /\ events \in Seq(Event) /\ Len(events) <= MaxEvents /\ quiet \in 0..MaxEvents
    BY HealthAssumption DEF HealthAssumption, TypeOK
  <1>1. ASSUME NEW event \in Event, Record(event)
        PROVE  LastError'
    BY <1>0, <1>1, LastErrorAppended DEF Record, LastError
  <1>7. CASE RecordSampledReply
    <2>1. Plain \in Event
      BY DEF Event
    <2>2. LastErrorAt(Appended(events, Plain), Since(quiet, Plain))
      BY <1>0, <2>1, LastErrorAppended DEF LastError
    <2>3. /\ Appended(events, Plain) \in Seq(Event) /\ Len(Appended(events, Plain)) <= MaxEvents
          /\ Since(quiet, Plain) \in 0..MaxEvents
      BY <1>0, <2>1, AppendedTyped
    <2>4. LastErrorAt(events', quiet')
      BY <1>7, <2>1, <2>2, <2>3, LastErrorAppended DEF RecordSampledReply
    <2> QED BY <2>4 DEF LastError
  <1>2. CASE Reset
    BY <1>0, <1>2 DEF Reset, LastError, LastErrorAt
  <1>3. ASSUME UNCHANGED <<events, quiet>>
        PROVE  LastError'
    BY <1>3 DEF LastError
  <1>4. CASE \E m \in Modules : Seen(m) \/ Unregistered(m) \/ FallsSilent(m)
    BY <1>3, <1>4 DEF Seen, Unregistered, FallsSilent, statsVars
  <1>5. CASE \/ GetHealth \/ Summarise \/ AddDetails \/ Respond
             \/ GetDiagnostics \/ ClearDiagnostics
    BY <1>3, <1>5
       DEF GetHealth, Summarise, AddDetails, Respond, GetDiagnostics, ClearDiagnostics, statsVars
  <1>6. CASE UNCHANGED vars
    BY <1>3, <1>6 DEF vars, statsVars
  <1> QED BY <1>1, <1>2, <1>4, <1>5, <1>6, <1>7 DEF Next

(* An error leaves the recent events only when MaxEvents events have been   *)
(* appended after it, two of them by one call perhaps, or with a reset.     *)
THEOREM EvictionCorrect == Spec => []ErrorsOnlyEvicted
  <1>0. MaxEvents \in Nat
    BY HealthAssumption DEF HealthAssumption
  <1>1. Init => LastError
    BY <1>0 DEF Init, LastError, LastErrorAt
  <1>2. TypeOK /\ LastError => ErrorsOnlyEvicted
    <2> SUFFICES ASSUME TypeOK, LastError
                 PROVE  ErrorsOnlyEvicted
      OBVIOUS
    <2>1. Len(events) \in Nat /\ Len(events) <= MaxEvents /\ quiet \in 0..MaxEvents
      BY DEF TypeOK
    <2>2. Has(events, {"error", "failure"}) <=> \E n \in 1..Len(events) : IsError(events[n])
      BY DEF Has, IsError
    <2>3. ASSUME quiet < MaxEvents
          PROVE  \E n \in 1..Len(events) : IsError(events[n])
      <3>1. Len(events) - quiet \in 1..Len(events) /\ IsError(events[Len(events) - quiet])
        BY <1>0, <2>1, <2>3 DEF LastError, LastErrorAt
      <3> QED BY <3>1
    <2>4. ASSUME ~(quiet < MaxEvents)
          PROVE  \A n \in 1..Len(events) : ~IsError(events[n])
      BY <1>0, <2>1, <2>4 DEF LastError, LastErrorAt
    <2> QED BY <2>2, <2>3, <2>4 DEF ErrorsOnlyEvicted
  <1> QED BY <1>1, <1>2, LastErrorStays, TypeCorrect, PTL DEF Spec

-----------------------------------------------------------------------------
(* Totals and events.                                                       *)

Count(list, p) == Cardinality({n \in 1..Len(list) : list[n][1] = p})

LEMMA CountNat ==
  ASSUME NEW list \in Seq(Event), NEW p
  PROVE  Count(list, p) \in Nat
  <1>1. IsFiniteSet(1..Len(list))
    BY FS_Interval
  <1>2. IsFiniteSet({n \in 1..Len(list) : list[n][1] = p})
    BY <1>1, FS_Subset
  <1> QED BY <1>2, FS_CardinalityType DEF Count

(* An event that is put into the bounded list adds at most itself.          *)
LEMMA CountAppended ==
  ASSUME NEW list \in Seq(Event), NEW x \in Event, NEW max \in Nat, Len(list) <= max, NEW p
  PROVE  Count(KeepLast(Append(list, x), max), p)
           <= Count(list, p) + (IF x[1] = p THEN 1 ELSE 0)
  <1> DEFINE kept == KeepLast(Append(list, x), max)
             cut  == Len(list) + 1 - Len(kept)
             K == {n \in 1..Len(kept) : kept[n][1] = p}
             L == {n \in 1..Len(list) : list[n][1] = p}
             M == IF x[1] = p THEN L \cup {Len(list) + 1} ELSE L
             f == [n \in K |-> n + cut]
  <1>1. /\ kept \in Seq(Event) /\ cut \in {0, 1}
        /\ \A n \in 1..Len(kept) :
             kept[n] = IF n + cut = Len(list) + 1 THEN x ELSE list[n + cut]
    BY AppendKept
  <1>2. Len(kept) \in Nat /\ Len(list) \in Nat /\ cut = Len(list) + 1 - Len(kept)
    BY <1>1
  <1>3. IsFiniteSet(L)
    <2>1. IsFiniteSet(1..Len(list))
      BY FS_Interval
    <2> QED BY <2>1, FS_Subset
  <1>4. /\ IsFiniteSet(M)
        /\ Cardinality(L) \in Nat
        /\ Cardinality(M) = Cardinality(L) + (IF x[1] = p THEN 1 ELSE 0)
    <2>1. Len(list) + 1 \notin L
      BY <1>2
    <2>2. Cardinality(L) \in Nat
      BY <1>3, FS_CardinalityType
    <2> HIDE DEF L
    <2>3. /\ IsFiniteSet(L \cup {Len(list) + 1})
          /\ Cardinality(L \cup {Len(list) + 1}) = Cardinality(L) + 1
      BY <1>3, <2>1, FS_AddElement
    <2> QED BY <1>3, <2>2, <2>3
  <1>5. f \in Injection(K, M)
    <2> HIDE DEF kept, cut
    <2>1. ASSUME NEW n \in K
          PROVE  n + cut \in M
      <3>1. n \in 1..Len(kept) /\ n + cut \in 1..(Len(list) + 1)
        BY <1>1, <1>2
      <3>2. CASE n + cut = Len(list) + 1
        BY <1>1, <3>1, <3>2
      <3>3. CASE n + cut # Len(list) + 1
        <4>1. kept[n] = list[n + cut] /\ n + cut \in 1..Len(list)
          <5>1. kept[n] = list[n + cut]
            BY <1>1, <3>1, <3>3
          <5>2. n + cut \in 1..Len(list)
            BY <1>2, <3>1, <3>3
          <5> QED BY <5>1, <5>2
        <4> QED BY <4>1
      <3> QED BY <3>2, <3>3
    <2>2. ASSUME NEW m \in K, NEW n \in K, m + cut = n + cut
          PROVE  m = n
      BY <1>1, <1>2, <2>2
    <2>3. ASSUME NEW m \in K, NEW n \in K, f[m] = f[n]
          PROVE  m = n
      BY <2>2, <2>3
    <2>4. f \in [K -> M]
      <3> HIDE DEF K, M
      <3> QED BY <2>1
    <2> HIDE DEF K, M, f
    <2> QED BY <2>3, <2>4 DEF Injection, IsInjective
  <1> HIDE DEF K, L, M, f
  <1>6. Cardinality(K) <= Cardinality(M)
    BY <1>4, <1>5, FS_Injection
  <1>7. Count(kept, p) = Cardinality(K) /\ Count(list, p) = Cardinality(L)
    BY DEF Count, K, L
  <1> QED BY <1>4, <1>6, <1>7

CountInv ==
  /\ \A p \in Problems : Count(events, p) <= totals[p]
  /\ pc # "idle" /\ ~reset => \A p \in Problems : Count(taken, p) <= totals[p]
  /\ pc = "diagnosed" => report.details = None
  /\ pc \in {"summarised", "detailed"} => report.summary \in Counts
  /\ pc \in {"summarised", "detailed"} /\ ~reset => \A p \in Problems :
       Count(taken, p) <= report.summary[p] /\ report.summary[p] <= totals[p]
  /\ pc \in {"summarised", "detailed"} /\ ~reset /\ report.details # None =>
       \A p \in Problems : report.summary[p] <= report.details[p]

LEMMA CountStays == TypeOK /\ CountInv /\ [Next]_vars => CountInv'
  <1> SUFFICES ASSUME TypeOK, CountInv, [Next]_vars
               PROVE  CountInv'
    OBVIOUS
  <1>0. /\ MaxEvents \in Nat
        /\ events \in Seq(Event) /\ Len(events) <= MaxEvents /\ taken \in Seq(Event)
        /\ totals \in [Problems -> Nat] /\ (pc # "idle" => report \in Report)
        /\ pc \in {"idle", "diagnosed", "summarised", "detailed"}
    BY HealthAssumption DEF HealthAssumption, TypeOK, Counts
  <1>1. /\ \A p \in Problems : Count(events, p) \in Nat /\ Count(taken, p) \in Nat
        /\ \A p \in Problems : totals[p] \in Nat
    <2>1. ASSUME NEW p \in Problems
          PROVE  Count(events, p) \in Nat /\ Count(taken, p) \in Nat
      <3>1. events \in Seq(Event)
        BY <1>0
      <3>2. taken \in Seq(Event)
        BY <1>0
      <3>3. Count(events, p) \in Nat
        BY <3>1, CountNat
      <3>4. Count(taken, p) \in Nat
        BY <3>2, CountNat
      <3> QED BY <3>3, <3>4
    <2>2. \A p \in Problems : totals[p] \in Nat
      BY <1>0
    <2> QED BY <2>1, <2>2
  <1>2. ASSUME NEW event \in Event, Record(event)
        PROVE  CountInv'
    <2>1. ASSUME NEW p \in Problems
          PROVE  /\ totals[p] <= totals'[p] /\ totals'[p] \in Nat
                 /\ event[1] = p => totals'[p] = totals[p] + 1
      BY <1>1, <1>2, <2>1 DEF Record
    <2>2. ASSUME NEW p \in Problems
          PROVE  Count(events', p) <= totals'[p]
      <3>1. Count(events', p) <= Count(events, p) + (IF event[1] = p THEN 1 ELSE 0)
        BY <1>0, <1>2, CountAppended DEF Record, Appended
      <3>2. events' \in Seq(Event)
        BY <1>0, <1>2, AppendKept DEF Record, Appended
      <3>3. Count(events', p) \in Nat
        BY <3>2, CountNat
      <3> QED BY <1>1, <2>1, <3>1, <3>3 DEF CountInv
    <2>3. UNCHANGED <<pc, report, taken, reset>>
      BY <1>2 DEF Record, reportVars
    <2>4. ASSUME pc \in {"summarised", "detailed"}, NEW p \in Problems
          PROVE  report.summary[p] \in Nat
      BY <2>4 DEF CountInv, Counts
    <2>5. \A p \in Problems : Count(events, p)' = Count(events', p) /\ Count(taken, p)' = Count(taken, p)
      BY <2>3 DEF Count
    <2> QED BY <1>1, <2>1, <2>2, <2>3, <2>4, <2>5 DEF CountInv
  <1>13. CASE RecordSampledReply
    <2>1. Plain \in Event /\ \A p \in Problems : Plain[1] # p
      BY DEF Event, Plain, Problems
    <2>2. ASSUME NEW p \in Problems
          PROVE  Count(events', p) <= totals[p]
      <3> DEFINE once == Appended(events, Plain)
      <3>1. once \in Seq(Event) /\ Len(once) <= MaxEvents
        BY <1>0, <2>1, AppendKept DEF Appended
      <3>2. Count(once, p) <= Count(events, p)
        BY <1>0, <1>1, <2>1, CountAppended DEF Appended
      <3> HIDE DEF once
      <3>3. Appended(once, Plain) \in Seq(Event)
        BY <1>0, <2>1, <3>1, AppendKept DEF Appended
      <3>4. Count(Appended(once, Plain), p) <= Count(once, p)
        <4>1. Count(Appended(once, Plain), p) <= Count(once, p) + (IF Plain[1] = p THEN 1 ELSE 0)
          BY <1>0, <2>1, <3>1, CountAppended DEF Appended
        <4> QED BY <2>1, <3>1, <4>1, CountNat
      <3>5. events' = Appended(once, Plain)
        BY <1>13 DEF RecordSampledReply, once
      <3>6. /\ Count(once, p) \in Nat /\ Count(Appended(once, Plain), p) \in Nat
        BY <3>1, <3>3, CountNat
      <3>7. Count(events, p) <= totals[p]
        BY DEF CountInv
      <3> QED BY <1>1, <3>2, <3>4, <3>5, <3>6, <3>7
    <2>3. UNCHANGED <<pc, report, taken, reset, totals>>
      BY <1>13 DEF RecordSampledReply, reportVars
    <2>4. \A p \in Problems : Count(events, p)' = Count(events', p) /\ Count(taken, p)' = Count(taken, p)
      BY <2>3 DEF Count
    <2> QED BY <2>2, <2>3, <2>4 DEF CountInv
  <1>3. CASE Reset
    <2>1. /\ events' = << >> /\ \A p \in Problems : totals'[p] = 0
          /\ reset' /\ UNCHANGED <<pc, report, taken>>
      BY <1>3 DEF Reset, reportVars
    <2>2. ASSUME NEW p \in Problems
          PROVE  Count(events, p)' = 0
      <3>1. {n \in 1..Len(events') : events'[n][1] = p} = {}
        BY <2>1
      <3> QED BY <3>1, FS_EmptySet DEF Count
    <2> QED BY <2>1, <2>2 DEF CountInv
  <1>4. CASE GetHealth
    <2>1. /\ pc' = "diagnosed" /\ taken' = events /\ UNCHANGED <<events, totals>>
          /\ report'.details = None
      BY <1>4 DEF GetHealth, statsVars
    <2>2. \A p \in Problems :
            Count(events, p)' = Count(events, p) /\ Count(taken, p)' = Count(events, p)
      BY <2>1 DEF Count
    <2> QED BY <2>1, <2>2 DEF CountInv
  <1>5. CASE Summarise
    <2>1. /\ pc = "diagnosed" /\ pc' = "summarised"
          /\ UNCHANGED <<events, totals, taken, reset>>
          /\ report'.details = None /\ report'.summary = totals
      BY <1>0, <1>5 DEF Summarise, statsVars, Report, CountInv
    <2>2. \A p \in Problems :
            Count(events, p)' = Count(events, p) /\ Count(taken, p)' = Count(taken, p)
      BY <2>1 DEF Count
    <2>3. totals \in Counts
      BY <1>0 DEF Counts
    <2>4. \A p \in Problems : Count(events, p) <= totals[p]
      BY DEF CountInv
    <2>5. ~reset => \A p \in Problems : Count(taken, p) <= totals[p]
      BY <2>1 DEF CountInv
    <2>6. \A p \in Problems : totals[p] <= totals[p]
      BY <1>1
    <2> QED BY <2>1, <2>2, <2>3, <2>4, <2>5, <2>6 DEF CountInv
  <1>6. CASE AddDetails
    <2>1. /\ pc = "summarised" /\ pc' = "detailed"
          /\ UNCHANGED <<events, totals, taken, reset>>
          /\ report'.details = totals /\ report'.summary = report.summary
      BY <1>0, <1>6 DEF AddDetails, statsVars, Report
    <2>2. \A p \in Problems :
            Count(events, p)' = Count(events, p) /\ Count(taken, p)' = Count(taken, p)
      BY <2>1 DEF Count
    <2>3. report.summary \in Counts
      BY <2>1 DEF CountInv
    <2>4. ASSUME ~reset
          PROVE  \A p \in Problems : /\ Count(taken, p) <= report.summary[p]
                                    /\ Count(taken, p) <= totals[p]
                                    /\ report.summary[p] <= totals[p]
      BY <2>1, <2>4 DEF CountInv
    <2>5. \A p \in Problems : Count(events, p) <= totals[p]
      BY DEF CountInv
    <2> QED BY <2>1, <2>2, <2>3, <2>4, <2>5 DEF CountInv
  <1>7. ASSUME UNCHANGED <<events, totals>>, pc' = "idle"
        PROVE  CountInv'
    <2>1. \A p \in Problems : Count(events, p)' = Count(events, p)
      BY <1>7 DEF Count
    <2> QED BY <1>7, <2>1 DEF CountInv
  <1>8. ASSUME UNCHANGED <<events, totals, pc, report, taken, reset>>
        PROVE  CountInv'
    <2>1. \A p \in Problems :
            Count(events, p)' = Count(events, p) /\ Count(taken, p)' = Count(taken, p)
      BY <1>8 DEF Count
    <2> QED BY <1>8, <2>1 DEF CountInv
  <1>9. CASE Respond
    BY <1>7, <1>9 DEF Respond, statsVars
  <1>10. CASE \E m \in Modules : Seen(m) \/ Unregistered(m) \/ FallsSilent(m)
    BY <1>8, <1>10 DEF Seen, Unregistered, FallsSilent, statsVars, reportVars
  <1>11. CASE GetDiagnostics \/ ClearDiagnostics
    BY <1>8, <1>11 DEF GetDiagnostics, ClearDiagnostics, statsVars
  <1>12. CASE UNCHANGED vars
    BY <1>8, <1>12 DEF vars, statsVars, reportVars
  <1> QED BY <1>2, <1>3, <1>4, <1>5, <1>6, <1>9, <1>10, <1>11, <1>12, <1>13 DEF Next

(* Unless a reset comes between, the summary counts every event behind a    *)
(* diagnostic and the details count what the summary does, though each is   *)
(* taken at another instant.                                                *)
THEOREM SummaryCorrect == Spec => []SummaryCovers
  <1>1. Init => CountInv
    <2> SUFFICES ASSUME Init
                 PROVE  CountInv
      OBVIOUS
    <2>1. ASSUME NEW p \in Problems
          PROVE  Count(events, p) = 0
      <3>1. {n \in 1..Len(events) : events[n][1] = p} = {}
        BY DEF Init
      <3> QED BY <3>1, FS_EmptySet DEF Count
    <2> QED BY <2>1 DEF Init, CountInv
  <1>2. CountInv => SummaryCovers
    BY DEF CountInv, SummaryCovers, Count
  <1> QED BY <1>1, <1>2, CountStays, TypeCorrect, PTL DEF Spec
=============================================================================
