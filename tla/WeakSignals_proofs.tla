-------------------------- MODULE WeakSignals_proofs --------------------------
(***************************************************************************)
(* Lemmas about the steps of WeakSignals, for any terms, extractions and   *)
(* faults.  Frontier_proofs builds its theorems on them.                   *)
(***************************************************************************)
EXTENDS WeakSignals, TLAPS

\* What a session has deleted is among what it has found, and nothing before its
\* DELETE; two sessions that have inserted have no term in common.
Apart ==
  /\ \A e \in Extractions :
       /\ ext[e].gone \subseteq ext[e].found
       /\ ext[e].pc \in {"idle", "delete"} => ext[e].gone = {}
  /\ \A e, o \in Extractions :
       e # o => Inserted(e) \cap Inserted(o) = {}

\* A session about to commit cuts just the edges there are now from its terms, if
\* it writes any.
CutsWhole ==
  \A e \in Extractions : ext[e].pc = "commit" =>
    /\ \A p \in ext[e].pairs : p[1] \in ext[e].found
    /\ \A p \in Pairs :
         ext[e].cut[p] = IF ext[e].pairs # {} /\ p[1] \in ext[e].found THEN pair[p] ELSE 0

SignalInv == SignalTypeOK /\ Apart /\ CutsWhole /\ PairsOnce

LEMMA NoExtType == NoExt \in Ext /\ NoSignal \in Signal \cup {NoSignal}
BY DEF NoExt, Ext, PCs

LEMMA SignalInitInv == SignalInit => SignalInv
<1> SUFFICES ASSUME SignalInit PROVE SignalInv
  OBVIOUS
<1>1. SignalTypeOK
  BY NoExtType, WeakSignalConstants DEF SignalInit, SignalTypeOK
<1>2. Apart /\ CutsWhole /\ PairsOnce
  BY DEF SignalInit, Apart, CutsWhole, PairsOnce, NoExt, Inserted
<1> QED BY <1>1, <1>2 DEF SignalInv

\* The rest of the model leaves signals, edges and extractions alone.
LEMMA SignalsRest ==
  ASSUME SignalInv, UNCHANGED <<signal, pair, link, ext>>, faults' \in 0..MaxFaults
  PROVE  SignalInv'
<1>1. SignalTypeOK'
  BY DEF SignalInv, SignalTypeOK
<1>2. Apart' /\ CutsWhole' /\ PairsOnce'
  BY DEF SignalInv, Apart, CutsWhole, PairsOnce, Inserted
<1> QED BY <1>1, <1>2 DEF SignalInv

LEMMA FaultType == ASSUME faults \in 0..MaxFaults, Fault PROVE faults' \in 0..MaxFaults
BY WeakSignalConstants DEF Fault

\* One session goes on, without the rows and the edges, to a point at which it holds
\* no more than what no other has inserted.
LEMMA GoesOn ==
  ASSUME SignalInv, NEW e \in Extractions, UNCHANGED <<signal, pair, link>>,
         faults' \in 0..MaxFaults, ext' \in [Extractions -> Ext],
         \A o \in Extractions \ {e} : ext'[o] = ext[o],
         ext'[e].gone \subseteq ext'[e].found,
         ext'[e].pc \in {"idle", "delete"} => ext'[e].gone = {},
         ext'[e].pc \in {"network", "commit"} =>
           \A o \in Extractions \ {e} : ext'[e].found \cap Inserted(o) = {},
         ext'[e].pc = "commit" =>
           /\ \A p \in ext'[e].pairs : p[1] \in ext'[e].found
           /\ \A p \in Pairs : ext'[e].cut[p]
                = IF ext'[e].pairs # {} /\ p[1] \in ext'[e].found THEN pair[p] ELSE 0
  PROVE  SignalInv' /\ signal' = signal
<1>2. SignalTypeOK'
  BY DEF SignalInv, SignalTypeOK
<1>3. Apart'
  <2>1. \A o \in Extractions :
          /\ ext'[o].gone \subseteq ext'[o].found
          /\ ext'[o].pc \in {"idle", "delete"} => ext'[o].gone = {}
    BY DEF SignalInv, Apart
  <2>2. \A o \in Extractions \ {e} : Inserted(o)' = Inserted(o)
    BY DEF Inserted
  <2>3. \A o \in Extractions \ {e} : Inserted(e)' \cap Inserted(o) = {}
    BY DEF Inserted
  <2>4. \A k, o \in Extractions : k # o => Inserted(k)' \cap Inserted(o)' = {}
    BY <2>2, <2>3 DEF SignalInv, Apart
  <2> QED BY <2>1, <2>4 DEF Apart
<1>4. CutsWhole'
  BY DEF SignalInv, CutsWhole
<1>5. PairsOnce'
  BY DEF SignalInv, PairsOnce
<1> QED BY <1>2, <1>3, <1>4, <1>5 DEF SignalInv

LEMMA SignalStep ==
  ASSUME SignalInv, NEW e \in Extractions,
         Compute(e) \/ Delete(e) \/ Insert(e) \/ Network(e) \/ Fail(e)
  PROVE  SignalInv' /\ signal' = signal
<1> /\ SignalTypeOK /\ Apart /\ CutsWhole
    /\ ext[e] \in Ext /\ ext \in [Extractions -> Ext]
    /\ signal \in [Terms -> Signal \cup {NoSignal}] /\ pair \in [Pairs -> Nat]
  BY DEF SignalInv, SignalTypeOK
<1>1. ext[e].gone \subseteq ext[e].found
  BY DEF Apart
<1>2. faults' \in 0..MaxFaults /\ UNCHANGED <<signal, pair, link>>
  BY FaultType DEF SignalTypeOK, Compute, Delete, Insert, Network, Fail
<1>3. CASE Compute(e)
  <2>1. PICK found \in Finds :
          ext' = [ext EXCEPT ![e].pc = IF found = {} THEN "network" ELSE "delete",
                             ![e].found = found,
                             ![e].saw = IF found = {} THEN @ ELSE signal]
    BY <1>3 DEF Compute
  <2>2. found \in SUBSET Terms
    BY WeakSignalConstants
  <2>3. /\ ext' \in [Extractions -> Ext] /\ \A o \in Extractions \ {e} : ext'[o] = ext[o]
        /\ ext'[e].gone = ext[e].gone /\ ext'[e].found = found
        /\ ext'[e].pc = IF found = {} THEN "network" ELSE "delete"
    BY <2>1, <2>2 DEF Ext, PCs
  <2>4. ext[e].gone = {}
    BY <1>3 DEF Compute, Apart
  <2> QED BY <1>2, <2>3, <2>4, GoesOn
<1>4. CASE Delete(e)
  <2>1. /\ ext' \in [Extractions -> Ext] /\ \A o \in Extractions \ {e} : ext'[o] = ext[o]
        /\ ext'[e].pc = "insert" /\ ext'[e].found = ext[e].found
        /\ ext'[e].gone \subseteq Visible(e)
    <3>1. NoExt.saw \in [Terms -> Signal \cup {NoSignal}]
      BY NoExtType DEF Ext
    <3>2. Visible(e) \subseteq Terms
      BY DEF Visible, Ext
    <3> QED BY <1>4, <3>1, <3>2 DEF Delete, Ext, PCs
  <2>2. Visible(e) \subseteq ext[e].found
    BY DEF Visible
  <2> QED BY <1>2, <2>1, <2>2, GoesOn
<1>5. CASE Insert(e)
  <2>1. CASE ext' = [ext EXCEPT ![e].pc = "network"]
    <3>1. /\ ext' \in [Extractions -> Ext] /\ \A o \in Extractions \ {e} : ext'[o] = ext[o]
          /\ ext'[e].pc = "network" /\ ext'[e].found = ext[e].found
          /\ ext'[e].gone = ext[e].gone
      BY <2>1 DEF Ext, PCs
    <3>2. \A o \in Extractions \ {e} : ext[e].found \cap Inserted(o) = {}
      BY <1>5 DEF Insert, Holds
    <3> QED BY <1>1, <1>2, <3>1, <3>2, GoesOn
  <2>2. CASE ext' = [ext EXCEPT ![e] = [NoExt EXCEPT !.pc = "failed"]]
    <3>1. [NoExt EXCEPT !.pc = "failed"] \in Ext
      BY NoExtType DEF Ext, PCs
    <3>2. /\ ext' \in [Extractions -> Ext] /\ \A o \in Extractions \ {e} : ext'[o] = ext[o]
          /\ ext'[e].pc = "failed" /\ ext'[e].gone = {}
      BY <2>2, <3>1 DEF NoExt
    <3> QED BY <1>2, <3>2, GoesOn
  <2> QED BY <1>5, <2>1, <2>2 DEF Insert
<1>6. CASE Network(e)
  <2> DEFINE cut(S) == [p \in Pairs |-> IF S # {} /\ p[1] \in ext[e].found
                                      THEN pair[p] ELSE 0]
  <2>1. PICK shared \in SUBSET {p \in Pairs : p[1] \in ext[e].found /\ p[2] \in ext[e].found} :
          ext' = [ext EXCEPT ![e].pc = "commit", ![e].pairs = shared, ![e].cut = cut(shared),
                             ![e].linked = ext[e].found \cup OfPeriod(e)]
    BY <1>6 DEF Network
  <2>2. cut(shared) \in [Pairs -> Nat]
    OBVIOUS
  <2>3. \A p \in Pairs : cut(shared)[p]
          = IF shared # {} /\ p[1] \in ext[e].found THEN pair[p] ELSE 0
    OBVIOUS
  <2>4. ext[e].found \cup OfPeriod(e) \subseteq Terms
    BY DEF Ext, OfPeriod
  <2> HIDE DEF cut
  <2>5. /\ ext' \in [Extractions -> Ext] /\ \A o \in Extractions \ {e} : ext'[o] = ext[o]
        /\ ext'[e].pc = "commit" /\ ext'[e].found = ext[e].found
        /\ ext'[e].gone = ext[e].gone /\ ext'[e].pairs = shared /\ ext'[e].cut = cut(shared)
    BY <2>1, <2>2, <2>4 DEF Ext, PCs
  <2>6. \A o \in Extractions \ {e} : ext[e].found \cap Inserted(o) = {}
    <3>1. Inserted(e) = ext[e].found
      BY <1>6 DEF Network, Inserted
    <3> QED BY <3>1 DEF Apart
  <2>7. \A p \in shared : p[1] \in ext[e].found
    OBVIOUS
  <2> QED BY <1>1, <1>2, <2>3, <2>5, <2>6, <2>7, GoesOn
<1>7. CASE Fail(e)
  <2>1. [NoExt EXCEPT !.pc = "failed"] \in Ext
    BY NoExtType DEF Ext, PCs
  <2>2. /\ ext' \in [Extractions -> Ext] /\ \A o \in Extractions \ {e} : ext'[o] = ext[o]
        /\ ext'[e].pc = "failed" /\ ext'[e].gone = {}
    BY <1>7, <2>1 DEF Fail, NoExt
  <2> QED BY <1>2, <2>2, GoesOn
<1> QED BY <1>3, <1>4, <1>5, <1>6, <1>7

\* A commit replaces each edge it writes by one, and cuts no edge another session
\* counts on.
LEMMA CommitStep ==
  ASSUME SignalInv, NEW e \in Extractions, Commit(e)
  PROVE  SignalInv' /\ \A t \in Terms : signal[t] # NoSignal => signal'[t] # NoSignal
<1> /\ SignalTypeOK /\ Apart /\ CutsWhole /\ PairsOnce
    /\ ext[e] \in Ext /\ ext \in [Extractions -> Ext]
    /\ signal \in [Terms -> Signal \cup {NoSignal}] /\ pair \in [Pairs -> Nat]
    /\ link \in [Terms -> Nat]
  BY DEF SignalInv, SignalTypeOK
<1> DEFINE f == ext[e].found
<1>1. /\ ext[e].gone \subseteq f /\ f \subseteq Terms /\ Inserted(e) = f
      /\ \A p \in ext[e].pairs : p[1] \in f
      /\ \A p \in Pairs : ext[e].cut[p]
            = IF ext[e].pairs # {} /\ p[1] \in f THEN pair[p] ELSE 0
  BY DEF Commit, Apart, CutsWhole, Inserted, Ext
<1>2. /\ ext' \in [Extractions -> Ext] /\ \A o \in Extractions \ {e} : ext'[o] = ext[o]
      /\ ext'[e].pc = "over" /\ ext'[e].gone = {}
  <2>1. [NoExt EXCEPT !.pc = "over"] \in Ext
    BY NoExtType DEF Ext, PCs
  <2> QED BY <2>1 DEF Commit, NoExt
<1>3. \A t \in Terms : \/ t \in f /\ signal'[t] = [period |-> PeriodOf[e], by |-> e]
                       \/ t \notin f /\ signal'[t] = signal[t]
  BY <1>1 DEF Commit, Written
<1>4. [period |-> PeriodOf[e], by |-> e] \in Signal
  BY WeakSignalConstants DEF Signal
<1>5. \A x \in Signal : x # NoSignal
  BY WeakSignalConstants DEF Signal, NoSignal
<1>6. \A p \in Pairs :
        /\ pair'[p] \in {0, 1}
        /\ p[1] \notin f => pair'[p] = pair[p]
  <2> SUFFICES ASSUME NEW p \in Pairs
               PROVE  pair'[p] \in {0, 1} /\ (p[1] \notin f => pair'[p] = pair[p])
    OBVIOUS
  <2>1. pair'[p] = pair[p] - ext[e].cut[p] + IF p \in ext[e].pairs THEN 1 ELSE 0
    BY DEF Commit
  <2>2. pair[p] \in {0, 1}
    BY DEF PairsOnce
  <2>3. CASE p \in ext[e].pairs
    <3>1. ext[e].cut[p] = pair[p]
      BY <1>1, <2>3
    <3> QED BY <1>1, <2>1, <2>2, <2>3, <3>1
  <2>4. CASE p \notin ext[e].pairs
    <3>1. ext[e].cut[p] = pair[p] \/ ext[e].cut[p] = 0
      BY <1>1
    <3>2. p[1] \notin f => ext[e].cut[p] = 0
      BY <1>1
    <3> QED BY <2>1, <2>2, <2>4, <3>1, <3>2
  <2> QED BY <2>3, <2>4
<1>7. SignalTypeOK'
  <2>1. signal' \in [Terms -> Signal \cup {NoSignal}]
    <3>1. signal' = [t \in Terms |-> signal'[t]]
      BY DEF Commit
    <3>2. \A t \in Terms : signal'[t] \in Signal \cup {NoSignal}
      BY <1>3, <1>4
    <3> QED BY <3>1, <3>2
  <2>2. pair' \in [Pairs -> Nat]
    <3>1. pair' = [p \in Pairs |-> pair'[p]]
      BY DEF Commit
    <3> QED BY <1>6, <3>1
  <2>3. link' \in [Terms -> Nat] /\ faults' = faults
    BY DEF Commit
  <2> QED BY <1>2, <2>1, <2>2, <2>3 DEF SignalTypeOK
<1>8. Apart'
  <2>1. \A o \in Extractions \ {e} : Inserted(o)' = Inserted(o)
    BY <1>2 DEF Inserted
  <2>2. Inserted(e)' = {}
    BY <1>2 DEF Inserted
  <2> QED BY <1>2, <2>1, <2>2 DEF Apart
<1>9. CutsWhole'
  <2> SUFFICES ASSUME NEW o \in Extractions, ext'[o].pc = "commit"
               PROVE  /\ \A p \in ext'[o].pairs : p[1] \in ext'[o].found
                      /\ \A p \in Pairs : ext'[o].cut[p]
                           = IF ext'[o].pairs # {} /\ p[1] \in ext'[o].found
                             THEN pair'[p] ELSE 0
    BY DEF CutsWhole
  <2>1. o # e /\ ext'[o] = ext[o]
    BY <1>2
  <2>2. ext[o].found \cap f = {}
    <3>1. Inserted(o) = ext[o].found
      BY <2>1 DEF Inserted
    <3> QED BY <1>1, <2>1, <3>1 DEF Apart
  <2>3. \A p \in Pairs : p[1] \in ext[o].found => pair'[p] = pair[p]
    BY <1>6, <2>2
  <2> QED BY <2>1, <2>3 DEF CutsWhole
<1>10. \A t \in Terms : signal[t] # NoSignal => signal'[t] # NoSignal
  BY <1>3, <1>4, <1>5
<1> QED BY <1>6, <1>7, <1>8, <1>9, <1>10 DEF SignalInv, PairsOnce

\* All steps of the extraction together.
LEMMA SignalNextStep ==
  ASSUME SignalInv, SignalNext
  PROVE  SignalInv' /\ \A t \in Terms : signal[t] # NoSignal => signal'[t] # NoSignal
<1>1. ASSUME NEW e \in Extractions,
             Compute(e) \/ Delete(e) \/ Insert(e) \/ Network(e) \/ Fail(e)
      PROVE  SignalInv' /\ \A t \in Terms : signal[t] # NoSignal => signal'[t] # NoSignal
  BY <1>1, SignalStep
<1> QED BY <1>1, CommitStep DEF SignalNext
=============================================================================
