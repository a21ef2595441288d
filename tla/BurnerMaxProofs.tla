-------------------------- MODULE BurnerMaxProofs ---------------------------
(***************************************************************************)
(* Invariants of BurnerMax for any number of capacity sites and any drive. *)
(***************************************************************************)
EXTENDS BurnerMax, TLAPS

-----------------------------------------------------------------------------
(* The inductive invariant                                                 *)

Writing == {"patch", "rescan", "reread"}

\* Until the call writes, the memory is as it found it; from then on it goes by
\* what a family that shows the memory found, and only those sites change.
CallInv ==
  /\ pc # "idle" => result.message = "none"
  /\ result.message = "none" => result.status = "none"
  /\ pc \in {"open", "verifyActive", "scan"} => wrote = {} /\ regs = start
  /\ pc \in Writing =>
       /\ family \in Seeing
       /\ found = Matches(start, Sites, Stock)
       /\ \A s \in Sites \ found : regs[s] = start[s]
  /\ pc = "reread" => \A s \in found : regs[s] = Replaced

IInv == /\ TypeOK /\ CallInv
        /\ OneFamilyWrites /\ EnabledIsComplete
        /\ (pc = "idle" /\ result.message = "none" => regs = start)
        /\ ChangesAreReported

\* Before the first call nothing is changed.
LEMMA InitInvariant == Init => IInv
<1> SUFFICES ASSUME Init PROVE IInv
  OBVIOUS
<1>1. TypeOK
  BY DEF Init, TypeOK, Results, Stock, Bytes, Families
<1>2. CallInv
  BY DEF Init, CallInv, Writing
<1>3. OneFamilyWrites /\ EnabledIsComplete /\ ChangesAreReported
  BY DEF Init, OneFamilyWrites, EnabledIsComplete, ChangesAreReported
<1> QED BY <1>1, <1>2, <1>3 DEF IInv, Init

\* A family whose reads do not show the memory shows no signature.
LEMMA RecognisedIsSeen ==
  ASSUME Recognised(View(family)) PROVE family \in Seeing
<1> SUFFICES ASSUME family \notin Seeing PROVE FALSE
  OBVIOUS
<1>1. \A s \in L0 : View(family)[s] = {1}
  BY DEF View, Nothing, Sites
<1>2. \A s \in L0 : View(family)[s] # Stock
  BY <1>1 DEF Stock
<1>3. Matches(View(family), L0, Stock) = {}
  BY <1>2 DEF Matches
<1> QED BY <1>3 DEF Recognised

\* Every step of a call, and the ejection between two calls, keeps the invariant.
LEMMA NextInvariant == IInv /\ [Next]_vars => IInv'
<1> SUFFICES ASSUME IInv, [Next]_vars PROVE IInv'
  OBVIOUS
<1> USE DEF IInv
<1>0. /\ \A m \in {"writeFailed", "readBackFailed", "wrongBoundary"} : m # "none"
      /\ result.status = "Enabled" => Success
  BY DEF Success
<1>1. CASE Begin
  <2>1. TypeOK'
    BY <1>1 DEF Begin, TypeOK, Results, Families, drive
  <2>2. CallInv'
    BY <1>1 DEF Begin, CallInv, Writing, drive
  <2>3. OneFamilyWrites' /\ EnabledIsComplete' /\ ChangesAreReported'
    BY <1>1 DEF Begin, OneFamilyWrites, EnabledIsComplete, ChangesAreReported
  <2> QED BY <1>1, <2>1, <2>2, <2>3 DEF Begin
<1>2. CASE Open
  <2>1. pc = "open" /\ UNCHANGED <<regs, boundary, family, found, left, wrote, start>>
    BY <1>2 DEF Open, drive
  <2>2. wrote = {} /\ regs = start
    BY <2>1 DEF CallInv
  <2>3. TypeOK'
    BY <1>2, <2>1 DEF Open, Return, TypeOK, Results
  <2>4. CallInv'
    BY <1>2, <2>1, <2>2 DEF Open, Return, CallInv, Writing
  <2>5. OneFamilyWrites' /\ ChangesAreReported'
    BY <2>1, <2>2 DEF OneFamilyWrites, ChangesAreReported
  <2>6. EnabledIsComplete'
    BY <1>2, <2>1 DEF Open, Return, EnabledIsComplete
  <2> QED BY <2>1, <2>2, <2>3, <2>4, <2>5, <2>6
<1>3. CASE VerifyActive
  <2>1. /\ pc = "verifyActive"
        /\ UNCHANGED <<regs, boundary, found, left, wrote, start>>
    BY <1>3 DEF VerifyActive, drive
  <2>2. wrote = {} /\ regs = start
    BY <2>1 DEF CallInv
  <2>3. TypeOK'
    BY <1>3, <2>1 DEF VerifyActive, Return, TypeOK, Results, Families
  <2>4. CallInv'
    BY <1>3, <2>1, <2>2 DEF VerifyActive, Return, CallInv, Writing
  <2>5. OneFamilyWrites' /\ ChangesAreReported'
    BY <2>1, <2>2 DEF OneFamilyWrites, ChangesAreReported
  <2>6. EnabledIsComplete'
    BY <1>3, <2>1 DEF VerifyActive, Return, EnabledIsComplete
  <2> QED BY <2>1, <2>2, <2>3, <2>4, <2>5, <2>6
<1>4. CASE Scan
  <2>1. pc = "scan" /\ UNCHANGED <<regs, boundary, wrote, start>>
    BY <1>4 DEF Scan, drive
  <2>2. wrote = {} /\ regs = start /\ result.message = "none"
    BY <2>1 DEF CallInv
  <2>3. OneFamilyWrites' /\ ChangesAreReported'
    BY <2>1, <2>2 DEF OneFamilyWrites, ChangesAreReported
  <2>4. CASE /\ Recognised(View(family))
             /\ found' = Matches(View(family), Sites, Stock)
             /\ left' = found' \X Bytes
             /\ pc' = "patch" /\ UNCHANGED <<family, result>>
    <3>1. family \in Seeing /\ found' = Matches(start, Sites, Stock)
      BY <2>2, <2>4, RecognisedIsSeen DEF View
    <3>2. found' \subseteq Sites
      BY <3>1 DEF Matches
    <3>3. TypeOK'
      BY <2>1, <2>4, <3>2 DEF TypeOK
    <3>4. CallInv'
      BY <2>1, <2>2, <2>4, <3>1 DEF CallInv, Writing, Matches
    <3>5. EnabledIsComplete'
      BY <2>1, <2>4 DEF EnabledIsComplete
    <3> QED BY <2>1, <2>2, <2>3, <3>3, <3>4, <3>5
  <2>5. CASE GiveUpFamily /\ UNCHANGED <<found, left>>
    <3>1. TypeOK'
      BY <2>1, <2>5 DEF GiveUpFamily, Return, TypeOK, Results, Families
    <3>2. CallInv'
      BY <2>1, <2>2, <2>5 DEF GiveUpFamily, Return, CallInv, Writing
    <3>3. EnabledIsComplete'
      BY <2>1, <2>5 DEF GiveUpFamily, Return, EnabledIsComplete
    <3> QED BY <2>1, <2>2, <2>3, <3>1, <3>2, <3>3
  <2> QED BY <1>4, <2>4, <2>5 DEF Scan
<1>5. CASE Patch
  <2>1. pc = "patch" /\ UNCHANGED start
    BY <1>5 DEF Patch
  <2>2. PICK w \in left :
          /\ wrote' = wrote \union {family}
          /\ Land(w) \/ UNCHANGED drive
          /\ \/ /\ left' = left \ {w}
                /\ pc' = IF left' = {} THEN "rescan" ELSE "patch"
                /\ UNCHANGED <<family, found, result>>
             \/ FailWrite
    BY <1>5 DEF Patch
  <2>3. w[1] \in found /\ w[2] \in Bytes /\ found \subseteq Sites
    BY <2>2 DEF TypeOK
  <2>4. regs' \in [Sites -> SUBSET Bytes] /\ boundary' \in Boundaries
    BY <2>2, <2>3 DEF TypeOK, Land, drive
  <2>5. \A s \in Sites \ found : regs'[s] = regs[s]
    BY <2>2, <2>3 DEF TypeOK, Land, drive
  <2>6. UNCHANGED <<family, found>> /\ left' \subseteq left
    BY <2>2 DEF FailWrite
  <2>7. wrote' = {family}
    BY <2>2 DEF OneFamilyWrites
  <2>8. result.message = "none" /\ result.status = "none"
    BY <2>1 DEF CallInv
  <2>9. \/ pc' \in {"patch", "rescan"} /\ UNCHANGED result
        \/ pc' = "idle" /\ result' = [status |-> "IoError", message |-> "writeFailed"]
    BY <2>2 DEF FailWrite, Return
  <2>10. TypeOK'
    BY <2>1, <2>4, <2>6, <2>7, <2>9 DEF TypeOK, Results, Families
  <2>11. CallInv'
    BY <2>1, <2>5, <2>6, <2>8, <2>9 DEF CallInv, Writing, Matches
  <2>12. OneFamilyWrites'
    BY <2>6, <2>7 DEF OneFamilyWrites
  <2>13. EnabledIsComplete' /\ ChangesAreReported'
    BY <2>8, <2>9 DEF EnabledIsComplete, ChangesAreReported
  <2> QED BY <2>9, <2>10, <2>11, <2>12, <2>13
<1>6. CASE Rescan
  <2>1. /\ pc = "rescan"
        /\ UNCHANGED <<regs, boundary, family, found, left, wrote, start>>
    BY <1>6 DEF Rescan, drive
  <2>2. result.message = "none" /\ result.status = "none" /\ family \in Seeing
    BY <2>1 DEF CallInv, Writing
  <2>3. TypeOK'
    BY <1>6, <2>1 DEF Rescan, Return, TypeOK, Results
  <2>4. OneFamilyWrites'
    BY <2>1 DEF OneFamilyWrites
  <2>5. CASE ReadBack(View(family)) /\ pc' = "reread" /\ UNCHANGED result
    <3>1. \A s \in found : regs[s] = Replaced
      BY <2>2, <2>5 DEF ReadBack, View
    <3>2. CallInv'
      BY <2>1, <2>2, <2>5, <3>1 DEF CallInv, Writing
    <3> QED BY <2>1, <2>2, <2>3, <2>4, <2>5, <3>2
            DEF EnabledIsComplete, ChangesAreReported
  <2>6. CASE Return("IoError", "writeFailed")
    <3>1. CallInv'
      BY <2>1, <2>6 DEF Return, CallInv, Writing
    <3> QED BY <2>3, <2>4, <2>6, <3>1
            DEF Return, EnabledIsComplete, ChangesAreReported
  <2> QED BY <1>6, <2>5, <2>6 DEF Rescan
<1>7. CASE ReadBoundary
  <2>1. /\ pc = "reread" /\ pc' = "idle"
        /\ UNCHANGED <<regs, boundary, family, found, left, wrote, start>>
    BY <1>7 DEF ReadBoundary, Return, drive
  <2>2. /\ found = Matches(start, Sites, Stock)
        /\ \A s \in Sites \ found : regs[s] = start[s]
        /\ \A s \in found : regs[s] = Replaced
    BY <2>1 DEF CallInv, Writing
  <2>3. \A s \in Sites : regs[s] = IF start[s] = Stock THEN Replaced ELSE start[s]
    BY <2>2 DEF Matches
  <2>4. TypeOK'
    BY <1>7, <2>1 DEF ReadBoundary, Return, TypeOK, Results
  <2>5. CallInv'
    BY <1>7, <2>1 DEF ReadBoundary, Return, CallInv, Writing
  <2>6. OneFamilyWrites'
    BY <2>1 DEF OneFamilyWrites
  <2>7. EnabledIsComplete'
    BY <1>7, <2>1, <2>3 DEF ReadBoundary, Return, EnabledIsComplete
  <2>8. ChangesAreReported' /\ result'.message # "none"
    BY <1>7, <2>1 DEF ReadBoundary, Return, ChangesAreReported, Success
  <2> QED BY <2>4, <2>5, <2>6, <2>7, <2>8
<1>8. CASE Reinsert
  <2>1. TypeOK'
    BY <1>8 DEF Reinsert, TypeOK, Results, Stock, Bytes
  <2>2. CallInv'
    BY <1>8 DEF Reinsert, CallInv, Writing
  <2>3. OneFamilyWrites' /\ EnabledIsComplete' /\ ChangesAreReported'
    BY <1>8 DEF Reinsert, OneFamilyWrites, EnabledIsComplete, ChangesAreReported
  <2> QED BY <1>8, <2>1, <2>2, <2>3 DEF Reinsert
<1>9. CASE UNCHANGED vars
  <2>1. TypeOK' /\ CallInv'
    BY <1>9 DEF vars, TypeOK, CallInv, Matches
  <2>2. OneFamilyWrites' /\ EnabledIsComplete' /\ ChangesAreReported'
    BY <1>9 DEF vars, OneFamilyWrites, EnabledIsComplete, ChangesAreReported, Success
  <2> QED BY <1>9, <2>1, <2>2 DEF vars
<1> QED BY <1>1, <1>2, <1>3, <1>4, <1>5, <1>6, <1>7, <1>8, <1>9 DEF Next, Step

\* What EnableBurnerMax knows at each step stays true until it returns.
THEOREM BurnerMaxInvariance == Spec => []IInv
<1>1. Init => IInv
  BY InitInvariant
<1>2. IInv /\ [Next]_vars => IInv'
  BY NextInvariant
<1> QED BY <1>1, <1>2, PTL DEF Spec

\* The types of the registers, the sites found and the bytes still to write.
THEOREM BurnerMaxTypes == Spec => []TypeOK
<1>1. IInv => TypeOK
  BY DEF IInv
<1> QED BY <1>1, BurnerMaxInvariance, PTL

\* For any number of sites and any drive, one call writes through one command
\* family.
THEOREM SingleFamily == Spec => []OneFamilyWrites
<1>1. IInv => OneFamilyWrites
  BY DEF IInv
<1> QED BY <1>1, BurnerMaxInvariance, PTL

\* For any number of sites and any drive, Enabled means that every signature
\* the call met is replaced, and nothing else was changed.
THEOREM CompletePayload == Spec => []EnabledIsComplete
<1>1. IInv => EnabledIsComplete
  BY DEF IInv
<1> QED BY <1>1, BurnerMaxInvariance, PTL

\* A call that fails after it changed a register says that it wrote.
THEOREM ReportedChanges == Spec => []ChangesAreReported
<1>1. IInv => ChangesAreReported
  BY DEF IInv
<1> QED BY <1>1, BurnerMaxInvariance, PTL

=============================================================================
