--------------------------- MODULE Frontier_proofs ---------------------------
(***************************************************************************)
(* Theorems about Frontier, for any signals, domains, scans, verifications *)
(* and faults.                                                             *)
(***************************************************************************)
EXTENDS Frontier, WeakSignals_proofs, FiniteSetTheorems

\* What a scan has read and deleted: it holds pending candidates only, no
\* candidate comes back, and it has none of its own before it fills.
ScanOK(s) ==
  /\ scan[s].pc # "fill" => scan[s].gone = {}
  /\ \A i \in scan[s].gone : cand[i] = "pending"
  /\ \A i \in scan[s].saw : cand[i] # "absent"
  /\ scan[s].pc = "fill" => \A i \in scan[s].saw \ scan[s].gone : cand[i] # "pending"
  /\ scan[s].pc \in {"demo", "over"} => \A i \in scan[s].saw : cand[i] # "pending"
  /\ scan[s].pc \in {"idle", "delete", "fill", "failed"} =>
       \A k \in Keys : cand[<<s, k>>] = "absent"
  /\ scan[s].pc = "demo" => \A d \in DemoRows : cand[<<s, d>>] = "absent"

GoneOnce == \A s, o \in Scans : s # o => scan[s].gone \cap scan[o].gone = {}

\* What a verification has read stays true: a candidate that was validated has a
\* verdict, a title that was there has its topic.
VerOK(v) ==
  /\ \A i \in ver[v].of : cand[i] # "absent"
  /\ ver[v].pc \in {"titles", "commit"} => ver[v].now \in Outcomes(v)
  /\ \A i \in ver[v].seen : cand[i] \in Verdicts
  /\ \A n \in ver[v].titles : topic[n] > 0

IInv ==
  /\ SignalInv /\ TypeOK
  /\ \A s \in Scans : ScanOK(s)
  /\ GoneOnce
  /\ \A v \in Verifications : VerOK(v)
  /\ TopicsWereValidated

\* How the status of a candidate may change.
Moves ==
  \A i \in Ids :
    \/ cand'[i] = cand[i]
    \/ (cand[i] = "pending" /\ cand'[i] = "deleted")
    \/ (cand[i] = "absent" /\ cand'[i] = "pending")
    \/ (cand[i] \notin {"absent", "deleted"} /\ cand'[i] \in Verdicts)

LEMMA NameType == \A i \in Ids : Name(i) \in Names
BY DEF Ids, Keys, Name, Names

\* A verification that has read nothing.
LEMMA BlankType ==
  ASSUME NEW pc \in {"idle", "sent", "over"}, NEW of \in SUBSET Ids
  PROVE  Blank(pc, of) \in Verification
BY DEF Blank, Verification, Statuses

LEMMA InitInv == Init => IInv
<1> SUFFICES ASSUME Init PROVE IInv
  OBVIOUS
<1>1. SignalInv
  BY SignalInitInv DEF Init
<1>2. TypeOK
  <2>1. ver \in [Verifications -> Verification]
    <3>1. Blank("idle", {}) \in Verification
      BY BlankType
    <3> QED BY <3>1 DEF Init
  <2> QED BY <1>1, <2>1 DEF SignalInv, TypeOK, Init, Statuses, Scan
<1>3. ASSUME NEW s \in Scans PROVE ScanOK(s)
  <2>1. (\A k \in Keys : <<s, k>> \in Ids) /\ DemoRows \subseteq Keys
    BY DEF Ids, Keys
  <2> QED BY <2>1 DEF Init, ScanOK
<1>4. GoneOnce
  BY DEF Init, GoneOnce
<1>5. \A v \in Verifications : VerOK(v)
  BY DEF Init, VerOK, Blank
<1>6. TopicsWereValidated
  BY DEF Init, TopicsWereValidated
<1> QED BY <1>1, <1>2, <1>3, <1>4, <1>5, <1>6 DEF IInv

\* A scan that does nothing, whatever happens to the candidates it does not hold.
LEMMA ScanKeeps ==
  ASSUME TypeOK, NEW s \in Scans, ScanOK(s), Moves, scan'[s] = scan[s],
         \A i \in scan[s].gone : cand'[i] = cand[i],
         \A k \in Keys : cand[<<s, k>>] = "absent" => cand'[<<s, k>>] = "absent"
  PROVE  ScanOK(s)'
<1>1. scan[s].saw \subseteq Ids /\ scan[s].gone \subseteq Ids
  BY DEF TypeOK, Scan
<1>2. \A i \in scan[s].saw : cand'[i] # "absent"
  BY <1>1 DEF ScanOK, Moves, Verdicts
<1>3. \A i \in scan[s].saw : cand[i] # "pending" => cand'[i] # "pending"
  BY <1>1 DEF ScanOK, Moves, Verdicts
<1>4. DemoRows \subseteq Keys
  BY DEF Keys
<1> QED BY <1>2, <1>3, <1>4 DEF ScanOK

\* So does a verification that does nothing.
LEMMA VerKeeps ==
  ASSUME TypeOK, NEW v \in Verifications, VerOK(v), Moves, ver'[v] = ver[v],
         \A n \in Names : topic[n] > 0 => topic'[n] > 0
  PROVE  VerOK(v)'
<1>1. /\ ver[v].of \subseteq Ids /\ ver[v].seen \subseteq Ids /\ ver[v].titles \subseteq Names
  BY DEF TypeOK, Verification
<1>2. /\ \A i \in ver[v].of : cand'[i] # "absent"
      /\ \A i \in ver[v].seen : cand'[i] \in Verdicts
  BY <1>1 DEF VerOK, Moves, Verdicts
<1> QED BY <1>1, <1>2 DEF VerOK, Outcomes

LEMMA TopicsKeep ==
  ASSUME TypeOK, TopicsWereValidated, Moves, topic' = topic
  PROVE  TopicsWereValidated'
<1>1. \A i \in Ids : cand[i] \in Verdicts => cand'[i] \in Verdicts
  BY DEF Moves, Verdicts
<1> QED BY <1>1 DEF TopicsWereValidated

\* The whole invariant from its parts, after a step of one scan.
LEMMA ScanGoesOn ==
  ASSUME IInv, NEW s \in Scans, UNCHANGED wvars, UNCHANGED <<topic, ver>>, Moves,
         cand' \in [Ids -> Statuses], scan' \in [Scans -> Scan],
         \A o \in Scans \ {s} : scan'[o] = scan[o],
         \A o \in Scans \ {s} : \A i \in scan[o].gone : cand'[i] = cand[i],
         \A o \in Scans \ {s} : \A k \in Keys :
           cand[<<o, k>>] = "absent" => cand'[<<o, k>>] = "absent",
         \A o \in Scans \ {s} : scan'[s].gone \cap scan[o].gone = {},
         ScanOK(s)'
  PROVE  IInv'
<1>1. SignalInv'
  BY SignalsRest DEF IInv, SignalInv, SignalTypeOK, wvars
<1>2. TypeOK'
  BY <1>1 DEF IInv, TypeOK, SignalInv
<1>3. \A o \in Scans : ScanOK(o)'
  <2>1. ASSUME NEW o \in Scans \ {s} PROVE ScanOK(o)'
    BY ScanKeeps DEF IInv
  <2> QED BY <2>1
<1>4. GoneOnce'
  BY DEF IInv, GoneOnce
<1>5. \A v \in Verifications : VerOK(v)'
  BY VerKeeps DEF IInv
<1>6. TopicsWereValidated'
  BY TopicsKeep DEF IInv
<1> QED BY <1>1, <1>2, <1>3, <1>4, <1>5, <1>6 DEF IInv

\* A scan commits its deletion, and candidates of its own under new keys.
LEMMA ScanCommits ==
  ASSUME IInv, NEW s \in Scans, UNCHANGED wvars, UNCHANGED <<topic, ver>>,
         scan[s].pc \in {"fill", "demo"},
         NEW keys \in SUBSET Keys, \A k \in keys : cand[<<s, k>>] = "absent",
         cand' = Replaced(s, keys),
         NEW pc \in {"demo", "over"}, ScanOver(s, pc),
         pc = "demo" => keys = {} /\ scan[s].pc = "fill"
  PROVE  IInv' /\ Moves
<1> /\ TypeOK /\ ScanOK(s) /\ GoneOnce /\ \A o \in Scans : ScanOK(o)
    /\ cand \in [Ids -> Statuses] /\ scan \in [Scans -> Scan] /\ scan[s] \in Scan
  BY DEF IInv, TypeOK
<1>1. /\ \A o \in Scans, k \in Keys : /\ <<o, k>> \in Ids
                                      /\ <<o, k>>[1] = o /\ <<o, k>>[2] = k
      /\ \A i \in Ids : i[1] \in Scans /\ i[2] \in Keys /\ i = <<i[1], i[2]>>
      /\ DemoRows \subseteq Keys
  BY DEF Ids, Keys
<1>2. \A o \in Scans : scan[o].gone \subseteq Ids /\ scan[o].saw \subseteq Ids
  BY DEF TypeOK, Scan
<1>3. \A i \in Ids : cand'[i] = IF i \in scan[s].gone THEN "deleted"
               ELSE IF i[1] = s /\ i[2] \in keys THEN "pending" ELSE cand[i]
  BY DEF Replaced
<1>4. /\ scan' \in [Scans -> Scan] /\ \A o \in Scans \ {s} : scan'[o] = scan[o]
      /\ scan'[s].pc = pc /\ scan'[s].saw = scan[s].saw /\ scan'[s].gone = {}
  BY DEF ScanOver, Scan
<1>5. \A i \in Ids : i[1] = s /\ i[2] \in keys => cand[i] = "absent"
  BY <1>1
<1>6. \A i \in scan[s].gone : cand[i] = "pending"
  BY DEF ScanOK
<1>7. Moves
  BY <1>3, <1>5, <1>6 DEF Moves
<1>8. cand' \in [Ids -> Statuses]
  <2>1. \A i \in Ids : cand'[i] \in Statuses
    BY <1>3 DEF Statuses
  <2>2. cand' = [i \in Ids |-> cand'[i]]
    BY DEF Replaced
  <2> QED BY <2>1, <2>2
<1>9. \A o \in Scans \ {s} : \A i \in scan[o].gone : cand'[i] = cand[i]
  <2> SUFFICES ASSUME NEW o \in Scans \ {s}, NEW i \in scan[o].gone
               PROVE  cand'[i] = cand[i]
    OBVIOUS
  <2>1. i \in Ids /\ cand[i] = "pending" /\ i \notin scan[s].gone
    BY <1>2 DEF ScanOK, GoneOnce
  <2> QED BY <1>3, <1>5, <2>1
<1>10. \A o \in Scans \ {s} : \A k \in Keys :
         cand[<<o, k>>] = "absent" => cand'[<<o, k>>] = "absent"
  <2> SUFFICES ASSUME NEW o \in Scans \ {s}, NEW k \in Keys, cand[<<o, k>>] = "absent"
               PROVE  cand'[<<o, k>>] = "absent"
    OBVIOUS
  <2>1. <<o, k>> \in Ids /\ <<o, k>>[1] = o /\ <<o, k>> \notin scan[s].gone
    BY <1>1, <1>6
  <2> QED BY <1>3, <2>1
<1>11. \A i \in scan[s].saw : cand'[i] \notin {"absent", "pending"}
  <2> SUFFICES ASSUME NEW i \in scan[s].saw PROVE cand'[i] \notin {"absent", "pending"}
    OBVIOUS
  <2>1. i \in Ids /\ cand[i] # "absent" /\ ~(i[1] = s /\ i[2] \in keys)
    BY <1>2, <1>5 DEF ScanOK
  <2>2. i \in scan[s].gone \/ cand[i] # "pending"
    BY DEF ScanOK
  <2> QED BY <1>3, <2>1, <2>2
<1>12. pc = "demo" => \A d \in DemoRows : cand'[<<s, d>>] = "absent"
  <2> SUFFICES ASSUME pc = "demo", NEW d \in DemoRows PROVE cand'[<<s, d>>] = "absent"
    OBVIOUS
  <2>1. <<s, d>> \in Ids /\ cand[<<s, d>>] = "absent" /\ <<s, d>> \notin scan[s].gone
    BY <1>1, <1>6 DEF ScanOK
  <2> QED BY <1>3, <2>1
<1>13. ScanOK(s)'
  BY <1>4, <1>11, <1>12 DEF ScanOK
<1> QED BY <1>4, <1>7, <1>8, <1>9, <1>10, <1>13, ScanGoesOn

LEMMA ScanStepInv ==
  ASSUME IInv, NEW s \in Scans, ScanStep(s), UNCHANGED wvars
  PROVE  IInv' /\ Moves
<1> /\ TypeOK /\ ScanOK(s) /\ GoneOnce /\ \A o \in Scans : ScanOK(o)
    /\ cand \in [Ids -> Statuses] /\ scan \in [Scans -> Scan] /\ scan[s] \in Scan
  BY DEF IInv, TypeOK
<1>2. \A o \in Scans : scan[o].gone \subseteq Ids /\ scan[o].saw \subseteq Ids
  BY DEF TypeOK, Scan
<1>3. cand' = cand => Moves
  BY DEF Moves
<1>4. CASE ScanStart(s)
  <2>1. With("pending") \subseteq Ids /\ \A i \in With("pending") : cand[i] = "pending"
    BY DEF With
  <2>2. /\ scan' \in [Scans -> Scan] /\ \A o \in Scans \ {s} : scan'[o] = scan[o]
        /\ scan'[s] = [pc |-> "delete", saw |-> With("pending"), gone |-> {}]
    BY <1>4, <2>1 DEF ScanStart, Scan
  <2>3. ScanOK(s)'
    BY <1>4, <2>1, <2>2 DEF ScanStart, ScanOK
  <2>4. cand' = cand /\ UNCHANGED <<topic, ver>>
    BY <1>4 DEF ScanStart
  <2> QED BY <1>3, <2>2, <2>3, <2>4, ScanGoesOn
<1>5. CASE ScanDelete(s)
  <2>1. Deletable(s) \subseteq scan[s].saw
    BY DEF Deletable
  <2>2. /\ scan' \in [Scans -> Scan] /\ \A o \in Scans \ {s} : scan'[o] = scan[o]
        /\ scan'[s].pc = "fill" /\ scan'[s].saw = scan[s].saw /\ scan'[s].gone = Deletable(s)
    BY <1>2, <1>5, <2>1 DEF ScanDelete, Scan
  <2>3. cand' = cand /\ UNCHANGED <<topic, ver>> /\ scan[s].pc = "delete"
    BY <1>5 DEF ScanDelete
  <2>4. ScanOK(s)'
    BY <2>2, <2>3 DEF ScanOK, Deletable
  <2>5. \A o \in Scans \ {s} : scan'[s].gone \cap scan[o].gone = {}
    BY <1>5, <2>1, <2>2 DEF ScanDelete
  <2> QED BY <1>3, <2>2, <2>3, <2>4, <2>5, ScanGoesOn
<1>6. CASE ScanFill(s)
  <2>1. PICK keys \in SUBSET (Suggested(s) \cup Domains) :
          /\ cand' = Replaced(s, keys)
          /\ ScanOver(s, IF keys = {} THEN "demo" ELSE "over")
    BY <1>6 DEF ScanFill
  <2>2. keys \subseteq Keys
    BY DEF Suggested, Keys
  <2>3. scan[s].pc = "fill" /\ UNCHANGED <<topic, ver>>
    BY <1>6 DEF ScanFill
  <2>4. \A k \in keys : cand[<<s, k>>] = "absent"
    BY <2>2, <2>3 DEF ScanOK
  <2>5. CASE keys = {}
    <3>1. ScanOver(s, "demo")
      BY <2>1, <2>5
    <3> QED BY <2>1, <2>2, <2>3, <2>5, <3>1, ScanCommits
  <2>6. CASE keys # {}
    <3>1. ScanOver(s, "over")
      BY <2>1, <2>6
    <3> QED BY <2>1, <2>2, <2>3, <2>4, <3>1, ScanCommits
  <2> QED BY <2>5, <2>6
<1>7. CASE ScanRefused(s)
  <2>1. /\ scan' \in [Scans -> Scan] /\ \A o \in Scans \ {s} : scan'[o] = scan[o]
        /\ scan'[s].pc = "failed" /\ scan'[s].saw = scan[s].saw /\ scan'[s].gone = {}
    BY <1>7 DEF ScanRefused, ScanOver, Scan
  <2>2. cand' = cand /\ UNCHANGED <<topic, ver>> /\ scan[s].pc = "fill"
    BY <1>7 DEF ScanRefused
  <2>3. ScanOK(s)'
    BY <2>1, <2>2 DEF ScanOK
  <2> QED BY <1>3, <2>1, <2>2, <2>3, ScanGoesOn
<1>8. CASE ScanDemo(s)
  <2>1. PICK rows \in SUBSET DemoRows : cand' = Replaced(s, rows)
    BY <1>8 DEF ScanDemo
  <2>2. scan[s].pc \in {"fill", "demo"} /\ UNCHANGED <<topic, ver>> /\ ScanOver(s, "over")
    BY <1>8 DEF ScanDemo
  <2>3. rows \subseteq Keys
    BY DEF Keys
  <2>4. \A k \in rows : cand[<<s, k>>] = "absent"
    BY <2>2, <2>3 DEF ScanOK
  <2> QED BY <2>1, <2>2, <2>3, <2>4, ScanCommits
<1> QED BY <1>4, <1>5, <1>6, <1>7, <1>8 DEF ScanStep

\* The invariant from its parts, after a step of one verification.
LEMMA VerGoesOn ==
  ASSUME IInv, NEW v \in Verifications, UNCHANGED <<signal, pair, link, ext>>,
         faults' \in 0..MaxFaults, UNCHANGED <<cand, topic, scan>>,
         ver' \in [Verifications -> Verification],
         \A w \in Verifications \ {v} : ver'[w] = ver[w], VerOK(v)'
  PROVE  IInv' /\ Moves
<1>1. SignalInv'
  BY SignalsRest DEF IInv
<1>2. TypeOK'
  BY <1>1 DEF IInv, TypeOK, SignalInv
<1>3. Moves
  BY DEF Moves
<1>4. (\A s \in Scans : ScanOK(s)') /\ GoneOnce' /\ TopicsWereValidated'
  BY DEF IInv, ScanOK, GoneOnce, TopicsWereValidated
<1>5. \A w \in Verifications : VerOK(w)'
  <2>1. ASSUME NEW w \in Verifications \ {v} PROVE VerOK(w)'
    BY <2>1 DEF IInv, VerOK, Outcomes
  <2> QED BY <2>1
<1> QED BY <1>1, <1>2, <1>3, <1>4, <1>5 DEF IInv

LEMMA VerPreparesInv ==
  ASSUME IInv, NEW v \in Verifications, UNCHANGED wvars,
         VerifySend(v) \/ VerifyLoad(v) \/ Judge(v) \/ Titles(v)
  PROVE  IInv' /\ Moves
<1> /\ TypeOK /\ VerOK(v) /\ ver \in [Verifications -> Verification]
    /\ ver[v] \in Verification /\ cand \in [Ids -> Statuses]
  BY DEF IInv, TypeOK
<1>1. UNCHANGED <<signal, pair, link, ext>> /\ faults' \in 0..MaxFaults
  BY DEF IInv, SignalInv, SignalTypeOK, wvars
<1>2. ver[v].of \subseteq Ids
  BY DEF Verification
<1>3. Over(v) => /\ ver' \in [Verifications -> Verification]
                 /\ \A w \in Verifications \ {v} : ver'[w] = ver[w]
                 /\ ver'[v].of = ver[v].of /\ ver'[v].pc = "over"
                 /\ ver'[v].seen = {} /\ ver'[v].titles = {}
  <2>1. Blank("over", ver[v].of) \in Verification
    BY <1>2, BlankType
  <2> QED BY <2>1 DEF Over, Blank
<1>4. (Over(v) /\ UNCHANGED <<cand, topic, scan>>) => IInv' /\ Moves
  <2> SUFFICES ASSUME Over(v), UNCHANGED <<cand, topic, scan>> PROVE IInv' /\ Moves
    OBVIOUS
  <2>1. VerOK(v)'
    BY <1>3 DEF VerOK
  <2> QED BY <1>1, <1>3, <2>1, VerGoesOn
<1>5. CASE VerifySend(v)
  <2>1. PICK i \in Ids : /\ cand[i] \notin {"absent", "deleted"}
                         /\ ver' = [ver EXCEPT ![v] = Blank("sent", {i})]
    BY <1>5 DEF VerifySend
  <2>2. /\ ver' \in [Verifications -> Verification]
        /\ \A w \in Verifications \ {v} : ver'[w] = ver[w]
        /\ ver'[v].pc = "sent" /\ ver'[v].of = {i}
        /\ ver'[v].seen = {} /\ ver'[v].titles = {}
    <3>1. Blank("sent", {i}) \in Verification
      BY BlankType
    <3> QED BY <2>1, <3>1 DEF Blank
  <2>3. UNCHANGED <<cand, topic, scan>>
    BY <1>5 DEF VerifySend
  <2>4. VerOK(v)'
    BY <2>1, <2>2, <2>3 DEF VerOK
  <2> QED BY <1>1, <2>2, <2>3, <2>4, VerGoesOn
<1>6. CASE VerifyLoad(v)
  <2>1. UNCHANGED <<cand, topic, scan>>
    BY <1>6 DEF VerifyLoad
  <2>2. CASE Over(v)
    BY <1>4, <2>1, <2>2
  <2>3. CASE \E i \in ver[v].of : ver' = [ver EXCEPT ![v].pc = "llm", ![v].was = cand[i]]
    <3>1. PICK i \in ver[v].of : ver' = [ver EXCEPT ![v].pc = "llm", ![v].was = cand[i]]
      BY <2>3
    <3>2. cand[i] \in Statuses
      BY <1>2
    <3>3. /\ ver' \in [Verifications -> Verification]
          /\ \A w \in Verifications \ {v} : ver'[w] = ver[w]
          /\ ver'[v].pc = "llm" /\ ver'[v].of = ver[v].of
          /\ ver'[v].seen = ver[v].seen /\ ver'[v].titles = ver[v].titles
      BY <3>1, <3>2 DEF Verification
    <3>4. VerOK(v)'
      BY <2>1, <3>3 DEF VerOK
    <3> QED BY <1>1, <2>1, <3>3, <3>4, VerGoesOn
  <2> QED BY <1>6, <2>2, <2>3 DEF VerifyLoad
<1>7. CASE Judge(v)
  <2>1. UNCHANGED <<cand, topic, scan>>
    BY <1>7 DEF Judge
  <2>2. CASE Over(v)
    BY <1>4, <2>1, <2>2
  <2>3. ASSUME NEW now \in Outcomes(v),
               ver' = [ver EXCEPT ![v].pc = "titles", ![v].now = now, ![v].seen = Synced(v)]
        PROVE  IInv' /\ Moves
    <3>1. Synced(v) \subseteq Ids /\ \A i \in Synced(v) : cand[i] \in Verdicts
      BY DEF Synced, With, Verdicts
    <3>2. now \in Statuses
      BY DEF Outcomes, Statuses, Verification
    <3>3. /\ ver' \in [Verifications -> Verification]
          /\ \A w \in Verifications \ {v} : ver'[w] = ver[w]
          /\ ver'[v].pc = "titles" /\ ver'[v].of = ver[v].of
          /\ ver'[v].now = now /\ ver'[v].was = ver[v].was
          /\ ver'[v].seen = Synced(v) /\ ver'[v].titles = ver[v].titles
      BY <2>3, <3>1, <3>2 DEF Verification
    <3>4. VerOK(v)'
      BY <2>1, <3>1, <3>3 DEF VerOK, Outcomes
    <3> QED BY <1>1, <2>1, <3>3, <3>4, VerGoesOn
  <2>4. ASSUME NEW now \in Outcomes(v),
               ver' = [ver EXCEPT ![v].pc = "commit", ![v].now = now]
        PROVE  IInv' /\ Moves
    <3>1. now \in Statuses
      BY DEF Outcomes, Statuses, Verification
    <3>2. /\ ver' \in [Verifications -> Verification]
          /\ \A w \in Verifications \ {v} : ver'[w] = ver[w]
          /\ ver'[v].pc = "commit" /\ ver'[v].of = ver[v].of
          /\ ver'[v].now = now /\ ver'[v].was = ver[v].was
          /\ ver'[v].seen = ver[v].seen /\ ver'[v].titles = ver[v].titles
      BY <2>4, <3>1 DEF Verification
    <3>3. VerOK(v)'
      BY <2>1, <3>2 DEF VerOK, Outcomes
    <3> QED BY <1>1, <2>1, <3>2, <3>3, VerGoesOn
  <2> QED BY <1>7, <2>2, <2>3, <2>4 DEF Judge
<1>8. CASE Titles(v)
  <2>1. UNCHANGED <<cand, topic, scan>> /\ ver[v].pc = "titles"
    BY <1>8 DEF Titles
  <2> DEFINE there == {n \in Names : topic[n] > 0}
  <2>2. there \subseteq Names /\ \A n \in there : topic[n] > 0
    OBVIOUS
  <2>3. ver' = [ver EXCEPT ![v].pc = "commit", ![v].titles = there]
    BY <1>8 DEF Titles
  <2> HIDE DEF there
  <2>4. /\ ver' \in [Verifications -> Verification]
        /\ \A w \in Verifications \ {v} : ver'[w] = ver[w]
        /\ ver'[v].pc = "commit" /\ ver'[v].of = ver[v].of
        /\ ver'[v].now = ver[v].now /\ ver'[v].was = ver[v].was
        /\ ver'[v].seen = ver[v].seen /\ ver'[v].titles = there
    BY <2>2, <2>3 DEF Verification
  <2>5. VerOK(v)'
    BY <2>1, <2>2, <2>4 DEF VerOK, Outcomes
  <2> QED BY <1>1, <2>1, <2>4, <2>5, VerGoesOn
<1> QED BY <1>5, <1>6, <1>7, <1>8

\* A verification that commits writes a verdict over a candidate no scan holds, and
\* a topic for each validated candidate it has seen.
LEMMA VerifyCommitInv ==
  ASSUME IInv, NEW v \in Verifications, UNCHANGED wvars, VerifyCommit(v)
  PROVE  /\ IInv' /\ Moves
         /\ \/ \E i \in ver[v].of : cand[i] = "deleted"
            \/ \A i \in ver[v].seen : topic'[Name(i)] > 0
<1> /\ TypeOK /\ VerOK(v) /\ ver \in [Verifications -> Verification]
    /\ ver[v] \in Verification /\ cand \in [Ids -> Statuses] /\ topic \in [Names -> Nat]
    /\ TopicsWereValidated
  BY DEF IInv, TypeOK
<1>1. /\ ver' \in [Verifications -> Verification]
      /\ \A w \in Verifications \ {v} : ver'[w] = ver[w]
      /\ ver'[v].of = ver[v].of /\ ver'[v].pc = "over"
      /\ ver'[v].seen = {} /\ ver'[v].titles = {}
  <2>1. ver' = [ver EXCEPT ![v] = Blank("over", ver[v].of)]
    BY DEF VerifyCommit, Over
  <2>2. Blank("over", ver[v].of) \in Verification
    BY BlankType DEF Verification
  <2> QED BY <2>1, <2>2 DEF Blank
<1>2. UNCHANGED <<signal, pair, link, ext>> /\ faults' \in 0..MaxFaults /\ scan' = scan
  BY DEF IInv, SignalInv, SignalTypeOK, wvars, VerifyCommit
<1>3. CASE UNCHANGED <<cand, topic>> /\ \E i \in ver[v].of : cand[i] = "deleted"
  <2>1. VerOK(v)'
    BY <1>1, <1>3 DEF VerOK
  <2> QED BY <1>1, <1>2, <1>3, <2>1, VerGoesOn
<1>4. CASE /\ \A i \in ver[v].of : cand[i] # "deleted"
           /\ cand' = [i \in Ids |-> IF i \in ver[v].of /\ ver[v].now # ver[v].was
                                     THEN ver[v].now ELSE cand[i]]
           /\ topic' = [n \in Names |-> topic[n] + Cardinality(Made(v, n))]
  <2>1. /\ ver[v].now \in Verdicts \cup {ver[v].was}
        /\ \A i \in ver[v].of : i \in Ids /\ cand[i] \notin {"absent", "deleted"}
        /\ ver[v].seen \subseteq Ids
    BY <1>4 DEF VerifyCommit, VerOK, Outcomes, Verification
  <2>2. \A i \in Ids : \/ cand'[i] = cand[i]
                       \/ (i \in ver[v].of /\ cand'[i] \in Verdicts)
    BY <1>4, <2>1
  <2>3. Moves
    BY <2>1, <2>2 DEF Moves
  <2>4. cand' \in [Ids -> Statuses]
    BY <1>4, <2>2 DEF Statuses
  <2>5. \A n \in Names : /\ Cardinality(Made(v, n)) \in Nat
                         /\ Made(v, n) # {} => Cardinality(Made(v, n)) > 0
                         /\ Made(v, n) = {} => Cardinality(Made(v, n)) = 0
    <3> SUFFICES ASSUME NEW n \in Names
                 PROVE  /\ Cardinality(Made(v, n)) \in Nat
                        /\ Made(v, n) # {} => Cardinality(Made(v, n)) > 0
                        /\ Made(v, n) = {} => Cardinality(Made(v, n)) = 0
      OBVIOUS
    <3>1. IsFiniteSet(Made(v, n))
      <4>1. Made(v, n) \in SUBSET Ids
        BY <2>1 DEF Made
      <4> QED BY <4>1, FS_Subset, FrontierConstants
    <3>2. Cardinality(Made(v, n)) \in Nat
      BY <3>1, FS_CardinalityType
    <3>3. Cardinality(Made(v, n)) = 0 <=> Made(v, n) = {}
      BY <3>1, FS_EmptySet
    <3> HIDE DEF Made
    <3> QED BY <3>2, <3>3
  <2>6. \A n \in Names : topic'[n] = topic[n] + Cardinality(Made(v, n))
    BY <1>4
  <2>7. topic' \in [Names -> Nat] /\ \A n \in Names : topic[n] > 0 => topic'[n] > 0
    <3>1. \A n \in Names : topic'[n] \in Nat /\ (topic[n] > 0 => topic'[n] > 0)
      BY <2>5, <2>6
    <3> QED BY <1>4, <3>1
  <2>8. \A i \in ver[v].seen : topic'[Name(i)] > 0
    <3> SUFFICES ASSUME NEW i \in ver[v].seen PROVE topic'[Name(i)] > 0
      OBVIOUS
    <3>1. Name(i) \in Names
      BY <2>1, NameType
    <3>2. CASE Name(i) \in ver[v].titles
      BY <2>7, <3>1, <3>2 DEF VerOK
    <3>3. CASE Name(i) \notin ver[v].titles
      <4>1. i \in Made(v, Name(i))
        BY <3>3 DEF Made
      <4>2. Cardinality(Made(v, Name(i))) > 0 /\ Cardinality(Made(v, Name(i))) \in Nat
        BY <2>5, <3>1, <4>1
      <4>3. topic[Name(i)] \in Nat
        BY <3>1
      <4> QED BY <2>6, <3>1, <4>2, <4>3
    <3> QED BY <3>2, <3>3
  <2>9. TopicsWereValidated'
    <3> SUFFICES ASSUME NEW n \in Names, topic'[n] > 0
                 PROVE  \E i \in Ids : Name(i) = n /\ cand'[i] \in Verdicts
      BY DEF TopicsWereValidated
    <3>1. \A i \in Ids : cand[i] \in Verdicts => cand'[i] \in Verdicts
      BY <2>2
    <3>2. CASE topic[n] > 0
      BY <3>1, <3>2 DEF TopicsWereValidated
    <3>3. CASE ~(topic[n] > 0)
      <4>1. Made(v, n) # {}
        <5>1. topic[n] = 0
          BY <3>3
        <5>2. topic'[n] = Cardinality(Made(v, n))
          BY <2>5, <2>6, <5>1
        <5> HIDE DEF Made
        <5> QED BY <2>5, <5>2
      <4>2. PICK i \in ver[v].seen : Name(i) = n
        BY <4>1 DEF Made
      <4> QED BY <2>1, <3>1, <4>2 DEF VerOK
    <3> QED BY <3>2, <3>3
  <2>10. SignalInv'
    BY <1>2, SignalsRest DEF IInv
  <2>11. TypeOK'
    BY <1>1, <1>2, <2>4, <2>7, <2>10 DEF IInv, TypeOK, SignalInv
  <2>12. ASSUME NEW s \in Scans PROVE ScanOK(s)'
    <3>1. ScanOK(s) /\ scan[s].gone \subseteq Ids /\ scan[s].gone \cap ver[v].of = {}
      BY DEF IInv, TypeOK, Scan, VerifyCommit
    <3>2. \A i \in scan[s].gone : cand'[i] = cand[i]
      BY <2>2, <3>1
    <3>3. \A k \in Keys : cand[<<s, k>>] = "absent" => cand'[<<s, k>>] = "absent"
      <4> SUFFICES ASSUME NEW k \in Keys, cand[<<s, k>>] = "absent"
                   PROVE  cand'[<<s, k>>] = "absent"
        OBVIOUS
      <4>1. <<s, k>> \in Ids
        BY DEF Ids
      <4> QED BY <2>1, <2>2, <4>1
    <3> QED BY <1>2, <2>3, <3>1, <3>2, <3>3, ScanKeeps
  <2>13. GoneOnce'
    BY <1>2 DEF IInv, GoneOnce
  <2>14. ASSUME NEW w \in Verifications PROVE VerOK(w)'
    <3>1. CASE w # v
      BY <1>1, <2>3, <2>7, <3>1, VerKeeps DEF IInv
    <3>2. CASE w = v
      <4>1. \A i \in ver[v].of : cand'[i] # "absent"
        BY <2>1, <2>2 DEF Verdicts
      <4> QED BY <1>1, <3>2, <4>1 DEF VerOK
    <3> QED BY <3>1, <3>2
  <2> QED BY <2>3, <2>8, <2>9, <2>10, <2>11, <2>12, <2>13, <2>14 DEF IInv
<1> QED BY <1>3, <1>4 DEF VerifyCommit

LEMMA VerifyCrashInv ==
  ASSUME IInv, NEW v \in Verifications, VerifyCrash(v)
  PROVE  IInv' /\ Moves
<1> /\ VerOK(v) /\ ver \in [Verifications -> Verification] /\ ver[v] \in Verification
  BY DEF IInv, TypeOK
<1>1. UNCHANGED <<cand, topic, scan, signal, pair, link, ext>> /\ faults' \in 0..MaxFaults
  BY FaultType DEF IInv, SignalInv, SignalTypeOK, VerifyCrash
<1>2. /\ ver' \in [Verifications -> Verification]
      /\ \A w \in Verifications \ {v} : ver'[w] = ver[w]
      /\ ver'[v].of = ver[v].of /\ ver'[v].pc = "sent"
      /\ ver'[v].seen = {} /\ ver'[v].titles = {}
  <2>1. ver' = [ver EXCEPT ![v] = Blank("sent", ver[v].of)]
    BY DEF VerifyCrash
  <2>2. Blank("sent", ver[v].of) \in Verification
    BY BlankType DEF Verification
  <2> QED BY <2>1, <2>2 DEF Blank
<1>3. VerOK(v)'
  BY <1>1, <1>2 DEF VerOK
<1> QED BY <1>1, <1>2, <1>3, VerGoesOn

\* A step of an extraction leaves scans, candidates and topics alone.
LEMMA SignalNextInv ==
  ASSUME IInv, SignalNext, UNCHANGED fvars
  PROVE  IInv' /\ Moves
<1>1. SignalInv'
  BY SignalNextStep DEF IInv
<1>2. TypeOK'
  BY <1>1 DEF IInv, TypeOK, SignalInv, fvars
<1>3. /\ \A s \in Scans : ScanOK(s)'
      /\ GoneOnce' /\ TopicsWereValidated' /\ Moves
      /\ \A v \in Verifications : VerOK(v)'
  BY DEF IInv, fvars, ScanOK, GoneOnce, TopicsWereValidated, VerOK, Outcomes, Moves
<1> QED BY <1>1, <1>2, <1>3 DEF IInv

LEMMA NextInv == IInv /\ Next => IInv' /\ Moves
<1> SUFFICES ASSUME IInv, Next PROVE IInv' /\ Moves
  OBVIOUS
<1>1. CASE SignalNext /\ UNCHANGED fvars
  BY <1>1, SignalNextInv
<1>2. ASSUME NEW s \in Scans, ScanStep(s), UNCHANGED wvars PROVE IInv' /\ Moves
  BY <1>2, ScanStepInv
<1>3. ASSUME NEW v \in Verifications, VerifyStep(v), UNCHANGED wvars PROVE IInv' /\ Moves
  BY <1>3, VerPreparesInv, VerifyCommitInv DEF VerifyStep
<1>4. ASSUME NEW v \in Verifications, VerifyCrash(v) PROVE IInv' /\ Moves
  BY <1>4, VerifyCrashInv
<1> QED BY <1>1, <1>2, <1>3, <1>4 DEF Next

LEMMA StutterInv == IInv /\ UNCHANGED vars => IInv' /\ Moves
<1> SUFFICES ASSUME IInv, UNCHANGED vars PROVE IInv' /\ Moves
  OBVIOUS
<1>1. SignalInv'
  BY SignalsRest DEF IInv, SignalInv, SignalTypeOK, vars, wvars
<1>2. TypeOK'
  BY <1>1 DEF IInv, TypeOK, SignalInv, vars, fvars
<1>3. /\ \A s \in Scans : ScanOK(s)'
      /\ GoneOnce' /\ TopicsWereValidated' /\ Moves
      /\ \A v \in Verifications : VerOK(v)'
  BY DEF IInv, vars, fvars, ScanOK, GoneOnce, TopicsWereValidated, VerOK, Outcomes, Moves
<1> QED BY <1>1, <1>2, <1>3 DEF IInv

LEMMA Invariance == Spec => []IInv
<1>1. IInv /\ [Next]_vars => IInv'
  BY NextInv, StutterInv
<1> QED BY <1>1, InitInv, PTL DEF Spec

\* Every variable of the extraction and of scans, verifications and topics keeps
\* its type, counters of rows and edges included.
THEOREM FrontierTypeCorrect == Spec => []TypeOK
<1>1. IInv => TypeOK
  BY DEF IInv
<1> QED BY <1>1, Invariance, PTL

\* Any number of deliveries of any extractions, overlapping, failing or repeated,
\* leaves one co-occurrence edge for a pair of signals at most: each session cuts
\* the edges from its terms before it adds its own, and the unique index keeps two
\* sessions with a term in common from getting there together.
THEOREM OneEdgePerPair == Spec => []PairsOnce
<1>1. IInv => PairsOnce
  BY DEF IInv, SignalInv
<1> QED BY <1>1, Invariance, PTL

\* However many scans and verifications overlap, a scan that has committed leaves
\* nothing pending of what was pending when it began.
THEOREM ScanLeavesNoneBehind == Spec => []OldCandidatesGone
<1>1. IInv => OldCandidatesGone
  BY DEF IInv, ScanOK, OldCandidatesGone
<1> QED BY <1>1, Invariance, PTL

\* No topic without a candidate of its name that was validated, however stale the
\* list of validated candidates a verification makes its topics from.
THEOREM TopicsAreJustified == Spec => []TopicsWereValidated
<1>1. IInv => TopicsWereValidated
  BY DEF IInv
<1> QED BY <1>1, Invariance, PTL

\* Extractions of any terms and periods, in any order and number, fail or not:
\* the terms that are signals stay signals.
THEOREM TermsStaySignals == Spec => SignalsStay
<1> DEFINE Stay == \A t \in Terms : signal[t] # NoSignal => signal'[t] # NoSignal
<1>1. IInv /\ [Next]_vars => [Stay]_wvars
  <2> SUFFICES ASSUME IInv, [Next]_vars, ~UNCHANGED wvars PROVE Stay
    OBVIOUS
  <2>1. CASE SignalNext
    BY <2>1, SignalNextStep DEF IInv
  <2>2. CASE \E v \in Verifications : VerifyCrash(v)
    BY <2>2 DEF VerifyCrash
  <2> QED BY <2>1, <2>2 DEF Next, vars
<1>2. SignalsStay <=> [][Stay]_wvars
  BY DEF SignalsStay
<1> HIDE DEF Stay
<1> QED BY <1>1, <1>2, Invariance, PTL DEF Spec

\* The audit history is kept: no scan, verification, crash or race of them takes
\* the verdict of a candidate away.
THEOREM HistoryKept == Spec => VerdictsKept
<1> DEFINE Kept == \A i \in Ids : cand[i] \in Verdicts => cand'[i] \in Verdicts
<1>1. IInv /\ [Next]_vars => [Kept]_vars
  <2> SUFFICES ASSUME IInv, Next PROVE Kept
    OBVIOUS
  <2>1. Moves
    BY NextInv
  <2> QED BY <2>1 DEF Moves, Verdicts
<1>2. VerdictsKept <=> [][Kept]_vars
  BY DEF VerdictsKept
<1> HIDE DEF Kept
<1> QED BY <1>1, <1>2, Invariance, PTL DEF Spec

\* A verification that validates leaves a topic for each candidate it has seen
\* validated, made by itself or by whoever made its title.
THEOREM SyncIsComplete == Spec => SyncedHaveTopics
<1> DEFINE Complete == \A v \in Verifications :
       ver[v].pc = "commit" /\ ver'[v].pc = "over" /\ ver[v].now = "validated"
         => \/ \E i \in ver[v].of : cand[i] = "deleted"
            \/ \A i \in ver[v].seen : topic'[Name(i)] > 0
<1>1. IInv /\ [Next]_vars => [Complete]_vars
  <2> SUFFICES ASSUME IInv, Next,
                      NEW v \in Verifications, ver[v].pc = "commit", ver'[v].pc = "over"
               PROVE  \/ \E i \in ver[v].of : cand[i] = "deleted"
                      \/ \A i \in ver[v].seen : topic'[Name(i)] > 0
    OBVIOUS
  <2>1. ver \in [Verifications -> Verification]
    BY DEF IInv, TypeOK
  <2>2. ver' # ver
    OBVIOUS
  <2>3. ASSUME NEW w \in Verifications, VerifyStep(w), UNCHANGED wvars
        PROVE  VerifyCommit(v)
    <3>1. w = v
      BY <2>1, <2>3 DEF VerifyStep, VerifySend, VerifyLoad, Judge, Titles, VerifyCommit, Over
    <3> QED BY <2>3, <3>1 DEF VerifyStep, VerifySend, VerifyLoad, Judge, Titles
  <2>4. ASSUME NEW w \in Verifications, VerifyCrash(w) PROVE FALSE
    BY <2>1, <2>4 DEF VerifyCrash, Blank
  <2>5. VerifyCommit(v) /\ UNCHANGED wvars
    BY <2>2, <2>3, <2>4 DEF Next, fvars, ScanStep, ScanStart, ScanDelete, ScanFill,
      ScanRefused, ScanDemo
  <2> QED BY <2>5, VerifyCommitInv
<1>2. SyncedHaveTopics <=> [][Complete]_vars
  BY DEF SyncedHaveTopics
<1> HIDE DEF Complete
<1> QED BY <1>1, <1>2, Invariance, PTL DEF Spec

\* Why ValidatedHasTopic fails, in every instance: the first candidate of a name that
\* is validated has no topic once its verdict is committed, whatever else runs.
THEOREM FirstVerdictHasNoTopic ==
  Spec => [][\A i \in Ids :
               /\ \A j \in Ids : Name(j) = Name(i) => cand[j] \notin Verdicts
               /\ cand'[i] = "validated"
               => topic'[Name(i)] = 0]_vars
<1> DEFINE Bare == \A i \in Ids :
                     /\ \A j \in Ids : Name(j) = Name(i) => cand[j] \notin Verdicts
                     /\ cand'[i] = "validated"
                     => topic'[Name(i)] = 0
<1>1. IInv /\ Next => Bare
  <2> SUFFICES ASSUME IInv, Next, NEW i \in Ids, cand'[i] = "validated",
                      \A j \in Ids : Name(j) = Name(i) => cand[j] \notin Verdicts
               PROVE  topic'[Name(i)] = 0
    OBVIOUS
  <2>1. /\ cand \in [Ids -> Statuses] /\ topic \in [Names -> Nat] /\ Name(i) \in Names
        /\ ver \in [Verifications -> Verification]
    BY NameType DEF IInv, TypeOK
  <2>2. cand[i] # "validated" /\ cand' # cand
    BY DEF Verdicts
  <2>3. topic[Name(i)] = 0
    <3>1. ~(topic[Name(i)] > 0)
      BY <2>1 DEF IInv, TopicsWereValidated
    <3> QED BY <2>1, <3>1
  <2>4. ASSUME NEW s \in Scans, ScanStep(s)
        PROVE  FALSE
    <3>1. ASSUME NEW keys, cand' = Replaced(s, keys)
          PROVE  FALSE
      BY <2>2, <3>1 DEF Replaced
    <3> QED BY <2>2, <2>4, <3>1 DEF ScanStep, ScanStart, ScanDelete, ScanFill,
                                          ScanRefused, ScanDemo
  <2>5. PICK v \in Verifications : VerifyCommit(v)
    BY <2>2, <2>4 DEF Next, fvars, VerifyStep, VerifySend, VerifyLoad, Judge, Titles,
                      VerifyCrash
  <2>6. topic' = [n \in Names |-> topic[n] + Cardinality(Made(v, n))]
    BY <2>2, <2>5 DEF VerifyCommit
  <2>7. Made(v, Name(i)) = {}
    <3>1. \A j \in ver[v].seen : j \in Ids /\ cand[j] \in Verdicts
      BY <2>1 DEF IInv, VerOK, Verification
    <3> QED BY <3>1 DEF Made
  <2>8. Cardinality(Made(v, Name(i))) = 0
    BY <2>7, FS_EmptySet
  <2> QED BY <2>1, <2>3, <2>6, <2>8
<1>2. [][Bare]_vars <=>
        [][\A i \in Ids :
             /\ \A j \in Ids : Name(j) = Name(i) => cand[j] \notin Verdicts
             /\ cand'[i] = "validated"
             => topic'[Name(i)] = 0]_vars
  OBVIOUS
<1> HIDE DEF Bare
<1> QED BY <1>1, <1>2, Invariance, PTL DEF Spec
=============================================================================
