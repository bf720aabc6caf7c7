------------------------------ MODULE VmProofs ------------------------------
(***************************************************************************)
(* Proofs about Vm for code of any length below MAX_INSTS: what validate() *)
(* lets pass is translated without failing, its jumps fit in their array   *)
(* and go to where an instruction begins, and the compiled code takes the  *)
(* path of the interpreter up to where one of the two ends, or decides by  *)
(* a value that the other has not.                                         *)
(***************************************************************************)
EXTENDS Vm, TLAPS

USE VmAssumption

\* the first m instructions have passed: a half is that of an lddw
Good(m) ==
    \A k \in 0 .. m - 1 :
        /\ At(k).opcode = "half" => k > 0 /\ At(k - 1).opcode = "lddw"
        /\ At(k).opcode # "half" => Valid(k)

\* where an instruction begins
Begins(k) == At(k).opcode # "half"

\* what translate() has left behind it for the first m instructions
Emitted(m) ==
    /\ located = {k \in 0 .. m - 1 : Begins(k)}
    /\ \A k \in Index :
          IF k < m /\ EmitsJump(k)
          THEN jumpOf[k] # 0 /\ jumps[jumpOf[k]] = TargetPc(k)
          ELSE jumpOf[k] = 0
    /\ \A j \in DOMAIN jumps : jumps[j] = EXIT \/ (jumps[j] \in Index /\ Begins(jumps[j]))

Fresh == located = {} /\ jumps = << >> /\ jumpOf = [k \in Index |-> 0] /\ pc = 0 /\ last = 0

Inv ==
    /\ TypeOK
    /\ phase \in {"validate", "refused"} => Fresh
    /\ phase = "validate" => Good(i)
    /\ phase \in {"translate", "run"} =>
          Good(num_insts) /\ num_insts < MAX_INSTS /\ Emitted(i)
    /\ phase = "translate" => Len(jumps) <= i /\ (i \in Index => Begins(i)) /\ pc = 0 /\ last = 0
    /\ phase = "run" =>
          /\ i = num_insts
          /\ Len(jumps) <= num_insts + 1
          /\ pc \in Index => Begins(pc)
          /\ SamePath
-----------------------------------------------------------------------------
\* What a step forward in the code finds: an instruction is whole, and behind it
\* another one begins, or nothing.
LEMMA CodeShape ==
    ASSUME insts \in Codes
    PROVE  /\ num_insts \in Nat
           /\ \A k \in Index : /\ At(k).opcode \in Op
                               /\ At(k).offset \in Int
                               /\ At(k).dst \in Int /\ At(k).src \in Int
<1>1. insts \in Seq(Inst)
  OBVIOUS
<1>2. num_insts \in Nat
  BY <1>1 DEF num_insts
<1>3. ASSUME NEW k \in Index PROVE At(k) \in Inst
  BY <1>1, <1>2 DEF Index, At, num_insts
<1>4. \A x \in Inst : /\ x.opcode \in Op /\ x.offset \in Int
                      /\ x.dst \in Int /\ x.src \in Int
  BY DEF Inst
<1> QED
  BY <1>2, <1>3, <1>4

LEMMA AfterInside ==
    ASSUME insts \in Codes, NEW k \in Index, Valid(k)
    PROVE  /\ After(k) \in (k + 1) .. num_insts
           /\ \A x \in (k + 1) .. (After(k) - 1) :
                 x = k + 1 /\ ~Begins(x) /\ At(k).opcode = "lddw"
  BY CodeShape DEF After, Valid, Index, Begins

LEMMA AfterBegins ==
    ASSUME insts \in Codes, Good(num_insts), NEW k \in Index, Begins(k)
    PROVE  Valid(k) /\ (After(k) \in Index => Begins(After(k)))
<1>1. Valid(k)
  BY CodeShape DEF Good, Begins, Index
<1>2. ASSUME After(k) \in Index, ~Begins(After(k)) PROVE FALSE
  <2>1. After(k) > 0 /\ At(After(k) - 1).opcode = "lddw"
    BY <1>2, CodeShape DEF Good, Begins, Index
  <2>2. CASE At(k).opcode = "lddw"
    <3>1. At(k + 1).opcode = "half" /\ After(k) - 1 = k + 1
      BY <1>1, <2>2, CodeShape DEF Valid, After, Index
    <3> QED
      BY <2>1, <3>1
  <2>3. CASE At(k).opcode # "lddw"
    BY <2>1, <2>3, CodeShape DEF After, Index
  <2> QED
    BY <2>2, <2>3
<1> QED
  BY <1>1, <1>2

\* A jump that validate() let pass has a target that is an instruction.
LEMMA TargetBegins ==
    ASSUME insts \in Codes, NEW k \in Index, Valid(k), EmitsJump(k)
    PROVE  TargetPc(k) = EXIT \/ (TargetPc(k) \in Index /\ Begins(TargetPc(k)))
<1>1. CASE At(k).opcode = "exit"
  BY <1>1 DEF TargetPc
<1>2. CASE At(k).opcode \in Jumps
  <2>0. k \in Int /\ At(k).offset \in Int
    BY CodeShape DEF Index
  <2>1. TargetPc(k) = k + 1 + At(k).offset
    BY <1>2, <2>0 DEF TargetPc, Jumps
  <2> QED
    BY <1>2, <2>1 DEF Valid, JumpOK, Begins
<1> QED
  BY <1>1, <1>2 DEF EmitsJump

\* No step changes the code, and so nothing that is said of it.
LEMMA CodeStays ==
    ASSUME insts' = insts
    PROVE  /\ num_insts' = num_insts /\ Index' = Index
           /\ \A k : At(k)' = At(k) /\ Valid(k)' = Valid(k) /\ Begins(k)' = Begins(k)
           /\ \A k : Behind(k)' = Behind(k) /\ After(k)' = After(k) /\ Target(k)' = Target(k)
           /\ \A k : EmitsJump(k)' = EmitsJump(k) /\ TargetPc(k)' = TargetPc(k)
           /\ \A m : Good(m)' = Good(m)
  BY DEF num_insts, Index, At, Valid, JumpOK, RegistersOK, Begins, EmitsJump, TargetPc, Good, Behind, After, Target
-----------------------------------------------------------------------------
LEMMA InitInv == Init => Inv
<1> SUFFICES ASSUME Init PROVE Inv
  OBVIOUS
<1>1. num_insts \in Nat
  BY CodeShape DEF Init
<1>2. TypeOK
  BY <1>1 DEF Init, TypeOK, Index
<1>3. Fresh /\ Good(i)
  BY DEF Init, Fresh, Good
<1> QED
  BY <1>2, <1>3 DEF Init, Inv

LEMMA NextInv == Inv /\ [Next]_vars => Inv'
<1> SUFFICES ASSUME Inv, [Next]_vars PROVE Inv'
  OBVIOUS
<1>0. /\ TypeOK
      /\ insts \in Codes
      /\ num_insts \in Nat
      /\ i \in 0 .. num_insts
      /\ \A k \in Index : At(k).opcode \in Op /\ At(k).offset \in Int
  BY CodeShape DEF Inv, TypeOK
<1>1. CASE Refuse
  BY <1>1 DEF Refuse, Inv, TypeOK, Fresh, Index, num_insts
<1>2. CASE Validate
  <2>1. i \in Index /\ Valid(i) /\ insts' = insts
    BY <1>0, <1>2 DEF Validate, Index
  <2>2. /\ After(i) \in (i + 1) .. num_insts
        /\ \A x \in (i + 1) .. (After(i) - 1) :
              x = i + 1 /\ ~Begins(x) /\ At(i).opcode = "lddw"
    BY <1>0, <2>1, AfterInside
  <2>3. Good(i)
    BY <1>2 DEF Validate, Inv
  <2>4. Good(After(i))
    <3> SUFFICES ASSUME NEW k \in 0 .. After(i) - 1
                 PROVE  /\ At(k).opcode = "half" => k > 0 /\ At(k - 1).opcode = "lddw"
                        /\ At(k).opcode # "half" => Valid(k)
      BY DEF Good
    <3>1. CASE k < i
      BY <1>0, <2>3, <3>1 DEF Good
    <3>2. CASE k = i
      BY <2>1, <3>2 DEF Valid
    <3>3. CASE k > i
      <4>1. k = i + 1 /\ ~Begins(k) /\ At(i).opcode = "lddw"
        BY <1>0, <2>2, <3>3
      <4> QED
        BY <1>0, <4>1 DEF Begins
    <3> QED
      BY <1>0, <3>1, <3>2, <3>3
  <2>5. Good(i)'
    <3>1. i' = After(i)
      BY <1>2 DEF Validate
    <3> SUFFICES ASSUME NEW k \in 0 .. i' - 1
                 PROVE  /\ At(k)'.opcode = "half" => k > 0 /\ At(k - 1)'.opcode = "lddw"
                        /\ At(k)'.opcode # "half" => Valid(k)'
      BY DEF Good
    <3>2. At(k)' = At(k) /\ At(k - 1)' = At(k - 1) /\ Valid(k)' = Valid(k)
      BY <2>1, CodeStays
    <3> QED
      BY <2>4, <3>1, <3>2 DEF Good
  <2>6. /\ phase' = "validate" /\ i' = After(i)
        /\ UNCHANGED <<insts, located, jumps, jumpOf, ip, pc, last, alike>>
    BY <1>2 DEF Validate
  <2>7. Fresh'
    BY <1>2, <2>1, <2>6, CodeStays DEF Validate, Inv, Fresh
  <2>8. i' \in 0 .. num_insts'
    BY <1>0, <2>1, <2>2, <2>6, CodeStays
  <2>9. TypeOK'
    BY <1>0, <2>1, <2>6, <2>8, CodeStays DEF TypeOK
  <2> QED
    BY <2>5, <2>6, <2>7, <2>9 DEF Inv
<1>3. CASE Accept
  <2>1. i = num_insts /\ Good(num_insts) /\ Fresh /\ num_insts < MAX_INSTS /\ TypeOK
    BY <1>0, <1>3 DEF Accept, Inv, TooMany, TypeOK
  <2>2. /\ phase' = "translate" /\ i' = 0
        /\ UNCHANGED <<insts, located, jumps, jumpOf, ip, pc, last, alike>>
    BY <1>3 DEF Accept
  <2>3. 0 \in Index => Begins(0)
    BY <1>0, <2>1 DEF Good, Begins, Index
  <2>4. located' = {k \in 0 .. i' - 1 : Begins(k)'}
    BY <2>1, <2>2 DEF Fresh
  <2>5. \A k \in Index' : ~(k < i') /\ jumpOf'[k] = 0
    BY <1>0, <2>1, <2>2, CodeStays DEF Fresh, Index
  <2>6. Emitted(i)'
    BY <2>1, <2>2, <2>4, <2>5 DEF Emitted, Fresh
  <2>7. TypeOK'
    BY <1>0, <2>1, <2>2, CodeStays DEF TypeOK
  <2> QED
    BY <1>0, <2>1, <2>2, <2>3, <2>6, <2>7, CodeStays DEF Inv, Fresh
<1>4. CASE Translate
  <2>1. /\ i \in Index /\ Begins(i) /\ insts' = insts /\ phase = "translate"
        /\ Good(num_insts) /\ Emitted(i) /\ Len(jumps) <= i
        /\ jumps \in Seq(Int) /\ jumpOf \in [Index -> 0 .. Len(jumps)]
    BY <1>0, <1>4 DEF Translate, Inv, TypeOK, Index
  <2>2. Valid(i) /\ (After(i) \in Index => Begins(After(i)))
    BY <1>0, <2>1, AfterBegins
  <2>3. /\ After(i) \in (i + 1) .. num_insts
        /\ \A x \in (i + 1) .. (After(i) - 1) :
              x = i + 1 /\ ~Begins(x) /\ At(i).opcode = "lddw"
    BY <1>0, <2>1, <2>2, AfterInside
  <2>4. located' = {k \in 0 .. After(i) - 1 : Begins(k)}
    BY <1>0, <1>4, <2>1, <2>3 DEF Translate, Emitted, Index
  <2>5. \A k \in Index : k \in (i + 1) .. (After(i) - 1) => ~EmitsJump(k)
    BY <2>3 DEF EmitsJump, Begins, Jumps
  <2>6. /\ \A k \in Index :
              IF k < After(i) /\ EmitsJump(k)
              THEN jumpOf'[k] # 0 /\ jumps'[jumpOf'[k]] = TargetPc(k)
              ELSE jumpOf'[k] = 0
        /\ \A j \in DOMAIN jumps' : jumps'[j] = EXIT \/ (jumps'[j] \in Index /\ Begins(jumps'[j]))
        /\ jumps' \in Seq(Int) /\ Len(jumps') <= i + 1
        /\ jumpOf' \in [Index -> 0 .. Len(jumps')]
    <3>1. CASE ~EmitsJump(i)
      <4>1. jumps' = jumps /\ jumpOf' = jumpOf
        BY <1>4, <3>1 DEF Translate
      <4>2. \A k \in Index : k < After(i) /\ EmitsJump(k) <=> k < i /\ EmitsJump(k)
        BY <1>0, <2>3, <2>5, <3>1 DEF Index
      <4> QED
        BY <1>0, <2>1, <4>1, <4>2 DEF Emitted
    <3>2. CASE EmitsJump(i)
      <4>1. /\ jumps' = Append(jumps, TargetPc(i))
            /\ jumpOf' = [jumpOf EXCEPT ![i] = Len(jumps) + 1]
        BY <1>4, <3>2 DEF Translate
      <4>2. TargetPc(i) = EXIT \/ (TargetPc(i) \in Index /\ Begins(TargetPc(i)))
        BY <1>0, <2>1, <2>2, <3>2, TargetBegins
      <4>3. TargetPc(i) \in Int
        BY <1>0, <4>2 DEF EXIT, Index
      <4>4. /\ jumps' \in Seq(Int) /\ Len(jumps') = Len(jumps) + 1
            /\ \A j \in 1 .. Len(jumps) : jumps'[j] = jumps[j]
            /\ jumps'[Len(jumps) + 1] = TargetPc(i)
        BY <2>1, <4>1, <4>3
      <4>5. jumpOf' \in [Index -> 0 .. Len(jumps')]
        BY <2>1, <4>1, <4>4
      <4>6. \A j \in DOMAIN jumps' :
               jumps'[j] = EXIT \/ (jumps'[j] \in Index /\ Begins(jumps'[j]))
        <5> SUFFICES ASSUME NEW j \in DOMAIN jumps'
                     PROVE  jumps'[j] = EXIT \/ (jumps'[j] \in Index /\ Begins(jumps'[j]))
          OBVIOUS
        <5>1. j \in 1 .. Len(jumps) + 1 /\ Len(jumps) \in Nat
          BY <2>1, <4>4
        <5>2. CASE j = Len(jumps) + 1
          BY <4>2, <4>4, <5>2
        <5>3. CASE j \in 1 .. Len(jumps)
          <6>1. \A l \in DOMAIN jumps :
                   jumps[l] = EXIT \/ (jumps[l] \in Index /\ Begins(jumps[l]))
            BY <2>1 DEF Emitted
          <6>2. j \in DOMAIN jumps /\ jumps'[j] = jumps[j]
            BY <2>1, <4>4, <5>3
          <6>3. jumps'[j] = EXIT \/ (jumps'[j] \in Index /\ Begins(jumps'[j]))
            BY <6>1, <6>2
          <6> QED
            BY <6>3
        <5> QED
          BY <5>1, <5>2, <5>3
      <4>7. ASSUME NEW k \in Index
            PROVE  IF k < After(i) /\ EmitsJump(k)
                   THEN jumpOf'[k] # 0 /\ jumps'[jumpOf'[k]] = TargetPc(k)
                   ELSE jumpOf'[k] = 0
        <5>1. CASE k = i
          BY <1>0, <2>1, <2>3, <3>2, <4>1, <4>4, <5>1
        <5>2. CASE k # i
          <6>1. jumpOf'[k] = jumpOf[k] /\ jumpOf[k] \in 0 .. Len(jumps)
            BY <2>1, <4>1, <5>2
          <6>2. k < After(i) /\ EmitsJump(k) <=> k < i /\ EmitsJump(k)
            BY <1>0, <2>3, <2>5, <5>2 DEF Index
          <6>3. jumpOf[k] # 0 => jumps'[jumpOf[k]] = jumps[jumpOf[k]]
            BY <2>1, <4>4, <6>1
          <6> QED
            BY <2>1, <6>1, <6>2, <6>3 DEF Emitted
        <5> QED
          BY <5>1, <5>2
      <4> QED
        BY <1>0, <2>1, <4>4, <4>5, <4>6, <4>7
    <3> QED
      BY <3>1, <3>2
  <2>7. i' = After(i) /\ phase' = "translate" /\ UNCHANGED <<ip, pc, last, alike>>
    BY <1>4, <2>1 DEF Translate
  <2>8. Emitted(i)'
    BY <2>1, <2>4, <2>6, <2>7, CodeStays DEF Emitted
  <2>9. located' \subseteq Index
    BY <1>0, <2>3, <2>4 DEF Index
  <2>10. i' \in 0 .. num_insts'
    BY <1>0, <2>1, <2>3, <2>7, CodeStays
  <2>11. TypeOK'
    BY <1>0, <2>1, <2>6, <2>7, <2>9, <2>10, CodeStays DEF TypeOK
  <2>12. Len(jumps') <= After(i) /\ pc = 0 /\ last = 0 /\ num_insts < MAX_INSTS
    BY <1>0, <2>1, <2>3, <2>6 DEF Inv
  <2> QED
    BY <2>1, <2>2, <2>7, <2>8, <2>11, <2>12, CodeStays DEF Inv
<1>5. CASE Finish
  <2>1. /\ i = num_insts /\ insts' = insts
        /\ Good(num_insts) /\ Emitted(i) /\ Len(jumps) <= i /\ num_insts < MAX_INSTS
        /\ jumps \in Seq(Int) /\ jumpOf \in [Index -> 0 .. Len(jumps)]
        /\ jumps' = Append(jumps, EXIT) /\ jumpOf' = jumpOf /\ located' = located
        /\ phase' = "run" /\ pc' = 0 /\ i' = i /\ last' = 0 /\ alike' \in BOOLEAN
        /\ ip' = IF num_insts = 0 THEN EXIT ELSE 0
    BY <1>0, <1>5 DEF Finish, Inv, TypeOK
  <2>2. /\ jumps' \in Seq(Int) /\ Len(jumps') = Len(jumps) + 1
        /\ \A j \in 1 .. Len(jumps) : jumps'[j] = jumps[j]
        /\ jumps'[Len(jumps) + 1] = EXIT
    BY <2>1 DEF EXIT
  <2>3. \A k \in Index : jumpOf[k] # 0 => jumps'[jumpOf[k]] = jumps[jumpOf[k]]
    BY <2>1, <2>2
  <2>4. \A j \in DOMAIN jumps' :
           jumps'[j] = EXIT \/ (jumps'[j] \in Index /\ Begins(jumps'[j]))
    BY <2>1, <2>2 DEF Emitted
  <2>5. Emitted(i)'
    BY <2>1, <2>3, <2>4, CodeStays DEF Emitted
  <2>6. 0 \in Index => Begins(0)
    BY <1>0, <2>1 DEF Good, Begins, Index
  <2>7. jumpOf' \in [Index -> 0 .. Len(jumps')]
    BY <2>1, <2>2
  <2>8. ip' \in Index \cup {0, EXIT, TRAP, PROLOGUE} /\ SamePath'
    BY <1>0, <2>1, CodeStays DEF SamePath, EXIT, Index
  <2>9. located \subseteq Index
    BY DEF Inv, TypeOK
  <2> QED
    BY <1>0, <2>1, <2>2, <2>5, <2>6, <2>7, <2>8, <2>9, CodeStays DEF Inv, TypeOK
<1>6. CASE Run
  <2>1. /\ insts' = insts /\ phase = "run" /\ i = num_insts /\ ip = pc /\ pc \in Index
        /\ Good(num_insts) /\ Emitted(i) /\ Begins(pc) /\ last' = pc
        /\ UNCHANGED <<phase, i, located, jumps, jumpOf>>
    BY <1>6 DEF Run, Inv
  <2>2. PICK c, n \in Outcomes(pc) :
           ip' \in Compiled(pc, c) /\ pc' \in Interpreted(pc, n) /\ alike' = (c = n)
    BY <1>6 DEF Run
  <2>3. Valid(pc) /\ (After(pc) \in Index => Begins(After(pc)))
    BY <1>0, <2>1, AfterBegins
  <2>4. After(pc) \in (pc + 1) .. num_insts
    BY <1>0, <2>1, <2>3, AfterInside
  <2>5. /\ Behind(pc) = After(pc) \/ (Behind(pc) = EXIT /\ After(pc) = num_insts)
        /\ Behind(pc) \in Index \cup {EXIT} /\ pc \in Int
        /\ EXIT \in Int /\ TRAP \in Int /\ EXIT \notin Index /\ TRAP \notin Index
    BY <1>0, <2>1, <2>4 DEF Behind, Index, EXIT, TRAP
  <2>6. At(pc).opcode \notin Jumps \cup {"exit"} => jumpOf[pc] = 0
    BY <2>1 DEF Emitted, EmitsJump
  <2> DEFINE op == At(pc).opcode
             Alike ==
                \/ /\ op = "divreg"
                   /\ IF At(pc).imm = 0 THEN ip' = TRAP /\ pc' = EXIT
                                        ELSE ip' = Behind(pc) /\ pc' \in {EXIT, TRAP}
                \/ /\ op \in {"load", "store"}
                   /\ ip' \in {TRAP, Behind(pc)} /\ pc' \in {EXIT, TRAP}
             Unlike ==
                \/ /\ op = "jcc"
                   /\ <<ip', pc'>> \in {<<Target(pc), After(pc)>>, <<Behind(pc), Target(pc)>>}
                \/ /\ op \in {"divreg", "load", "store"}
                   /\ ip' \in {TRAP, Behind(pc)} /\ pc' \in {EXIT, TRAP, After(pc)}
  <2>7. /\ ip' \in Index \cup {EXIT, TRAP}
        /\ pc' \in Int /\ (pc' \in Index => Begins(pc'))
        /\ \/ ip' = pc'
           \/ ip' = EXIT /\ pc' = num_insts
           \/ IF c = n THEN Alike ELSE Unlike
    <3>1. CASE At(pc).opcode = "divreg"
      <4>1. c \in {"on", "zero", "low"} /\ n \in {"on", "zero", "low"} /\ jumpOf[pc] = 0
        BY <2>2, <2>6, <3>1 DEF Outcomes, Jumps
      <4>2. ip' = IF c \in {"zero", "low"} /\ At(pc).imm = 0 THEN TRAP ELSE Behind(pc)
        BY <2>2, <4>1 DEF Compiled
      <4>3. pc' = CASE n = "zero" -> EXIT [] n = "low" -> TRAP [] OTHER -> After(pc)
        BY <2>2, <3>1, <4>1 DEF Interpreted, Jumps
      <4>4. ip' \in {TRAP, Behind(pc)} /\ pc' \in {EXIT, TRAP, After(pc)}
        BY <4>2, <4>3
      <4> QED
        BY <2>3, <2>4, <2>5, <3>1, <4>1, <4>2, <4>3, <4>4
    <3>2. CASE At(pc).opcode \in {"load", "store"}
      <4>1. c \in {"on", "outside"} /\ n \in {"on", "outside"} /\ jumpOf[pc] = 0
        BY <2>2, <2>6, <3>2 DEF Outcomes, Jumps
      <4>2. ip' \in IF c = "outside" THEN {TRAP, Behind(pc)} ELSE {Behind(pc)}
        BY <2>2, <4>1 DEF Compiled
      <4>3. pc' \in IF n = "outside" THEN {EXIT, TRAP} ELSE {After(pc)}
        BY <2>2, <3>2, <4>1 DEF Interpreted, Jumps
      <4> QED
        BY <2>3, <2>4, <2>5, <3>2, <4>1, <4>2, <4>3
    <3>3. CASE At(pc).opcode \in Jumps
      <4>1. c \in {"on", "taken"} /\ n \in {"on", "taken"}
        BY <2>2, <3>3 DEF Outcomes, Jumps
      <4>2. EmitsJump(pc) /\ TargetPc(pc) = Target(pc)
        BY <1>0, <2>1, <2>5, <3>3 DEF EmitsJump, TargetPc, Jumps, Target
      <4>3. Target(pc) \in Index /\ Begins(Target(pc))
        BY <2>3, <3>3, <4>2 DEF Valid, JumpOK, Begins, Target
      <4>4. Target(pc) \in located
        BY <1>0, <2>1, <4>3 DEF Emitted, Index
      <4>5. jumpOf[pc] # 0 /\ jumps[jumpOf[pc]] = Target(pc)
        BY <1>0, <2>1, <4>2 DEF Emitted, Index
      <4>6. ip' = IF c = "taken" THEN Target(pc) ELSE Behind(pc)
        BY <2>2, <4>1, <4>4, <4>5 DEF Compiled, Resolve
      <4>7. pc' = IF n = "taken" THEN Target(pc) ELSE After(pc)
        BY <2>2, <3>3, <4>1 DEF Interpreted, Jumps
      <4>8. At(pc).opcode = "ja" => c = n
        BY <2>2 DEF Outcomes
      <4>9. Target(pc) \in Int /\ After(pc) \in Int /\ num_insts \notin Index
        BY <1>0, <2>4, <2>5, <4>3 DEF Index
      <4>10. CASE c = n
        BY <2>3, <2>5, <4>1, <4>3, <4>6, <4>7, <4>9, <4>10
      <4>11. CASE c # n
        <5>1. op = "jcc"
          BY <3>3, <4>8, <4>11 DEF Jumps
        <5>2. \/ ip' = Target(pc) /\ pc' = After(pc)
              \/ ip' = Behind(pc) /\ pc' = Target(pc)
          BY <4>1, <4>6, <4>7, <4>11
        <5>3. Unlike
          BY <5>1, <5>2
        <5>4. ip' \in Index \cup {EXIT} /\ pc' \in Int /\ (pc' \in Index => Begins(pc'))
          BY <2>3, <2>5, <4>3, <4>9, <5>2
        <5> QED
          BY <4>11, <5>3, <5>4
      <4> QED
        BY <4>10, <4>11
    <3>4. CASE At(pc).opcode = "exit"
      <4>1. c = "taken" /\ pc' = EXIT
        BY <2>2, <3>4 DEF Outcomes, Interpreted
      <4>2. CASE pc # num_insts - 1
        <5>1. jumpOf[pc] # 0 /\ jumps[jumpOf[pc]] = EXIT
          BY <1>0, <2>1, <3>4, <4>2 DEF Emitted, Index, EmitsJump, TargetPc
        <5> QED
          BY <2>2, <2>5, <3>4, <4>1, <5>1 DEF Compiled, Resolve
      <4>3. CASE pc = num_insts - 1
        <5>1. ~EmitsJump(pc) /\ After(pc) = num_insts
          BY <1>0, <3>4, <4>3 DEF EmitsJump, After, Jumps
        <5>2. jumpOf[pc] = 0 /\ Behind(pc) = EXIT
          BY <1>0, <2>1, <5>1 DEF Emitted, Behind
        <5> QED
          BY <2>2, <2>5, <3>4, <4>1, <5>2 DEF Compiled
      <4> QED
        BY <4>2, <4>3
    <3>5. CASE At(pc).opcode \notin Jumps \cup {"divreg", "load", "store", "exit"}
      <4>1. c = "on" /\ n = "on"
        BY <2>2, <3>5 DEF Outcomes, Jumps
      <4>2. ip' = Behind(pc) /\ pc' = After(pc)
        BY <2>2, <3>5, <4>1 DEF Compiled, Interpreted
      <4> QED
        BY <2>3, <2>4, <2>5, <4>2
    <3> QED
      BY <3>1, <3>2, <3>3, <3>4, <3>5
  <2>8. SamePath'
    <3>1. /\ At(last)' = At(pc) /\ Behind(last)' = Behind(pc)
          /\ After(last)' = After(pc) /\ Target(last)' = Target(pc)
      BY <2>1, CodeStays DEF At, Behind, After, Target, num_insts
    <3>2. (c = n => PartedAlike(last)' = Alike) /\ (c # n => PartedUnlike(last)' = Unlike)
      BY <3>1 DEF PartedAlike, PartedUnlike
    <3>3. /\ num_insts' = num_insts
          /\ \/ ip' = pc'
             \/ ip' = EXIT /\ pc' = num_insts
             \/ IF c = n THEN PartedAlike(last)' ELSE PartedUnlike(last)'
      BY <2>1, <2>7, <3>2, CodeStays
    <3> QED
      BY <2>2, <3>3 DEF SamePath
  <2>9. TypeOK'
    <3>1. alike' \in BOOLEAN /\ last' \in Index'
      BY <2>1, <2>2, CodeStays
    <3> QED
      BY <1>0, <2>1, <2>7, <3>1, CodeStays DEF TypeOK
  <2>10. Emitted(i)'
    BY <2>1, CodeStays DEF Emitted
  <2>11. (pc \in Index => Begins(pc))'
    BY <2>1, <2>7, CodeStays
  <2>12. Len(jumps) <= num_insts + 1 /\ num_insts < MAX_INSTS
    BY <2>1 DEF Inv
  <2> QED
    BY <2>1, <2>8, <2>9, <2>10, <2>11, <2>12, CodeStays DEF Inv
<1>7. CASE UNCHANGED vars
  BY <1>7, CodeStays DEF vars, Inv, TypeOK, Fresh, Emitted, SamePath, PartedAlike, PartedUnlike
<1> QED
  BY <1>1, <1>2, <1>3, <1>4, <1>5, <1>6, <1>7 DEF Next
-----------------------------------------------------------------------------
LEMMA InvHolds == Spec => []Inv
  BY InitInv, NextInv, PTL DEF Spec

\* The loops of validate() and translate() never leave the code, and every
\* variable holds what its use allows.
THEOREM TypeCorrect == Spec => []TypeOK
<1>1. Inv => TypeOK
  BY DEF Inv
<1> QED
  BY <1>1, InvHolds, PTL

\* Code that validate() let pass has no instruction, register or call that
\* translate() has no case for.
THEOREM TranslateTotalHolds == Spec => []TranslateTotal
<1>1. Inv => TranslateTotal
  <2> SUFFICES ASSUME Inv, phase = "translate", i < num_insts
               PROVE  /\ At(i).opcode \notin {"unknown", "half"}
                      /\ At(i).dst <= 10 /\ At(i).src <= 10
                      /\ At(i).opcode = "call" => At(i).imm \in ExtFuncs
    BY DEF TranslateTotal
  <2>1. i \in Index /\ insts \in Codes
    BY CodeShape DEF Inv, TypeOK, Index
  <2>2. Valid(i)
    BY <2>1, AfterBegins DEF Inv
  <2>3. At(i).dst \in Int
    BY <2>1, CodeShape DEF Inst
  <2> QED
    BY <2>2, <2>3 DEF Valid, RegistersOK
<1> QED
  BY <1>1, InvHolds, PTL

\* The jumps of the longest code that validate() lets pass, and that of the
\* handler of divisions by zero, fit in the array of MAX_INSTS jumps.
THEOREM JumpsFitHolds == Spec => []JumpsFit
<1>1. Inv => JumpsFit
  <2> SUFFICES ASSUME Inv PROVE Len(jumps) <= MAX_INSTS
    BY DEF JumpsFit
  <2>1. num_insts \in Nat /\ MAX_INSTS \in Nat /\ i \in 0 .. num_insts /\ Len(jumps) \in Nat
    BY CodeShape DEF Inv, TypeOK
  <2>2. CASE phase \in {"validate", "refused"}
    BY <2>1, <2>2 DEF Inv, Fresh
  <2>3. CASE phase \in {"translate", "run"}
    BY <2>1, <2>3 DEF Inv
  <2> QED
    BY <2>2, <2>3 DEF Inv, TypeOK
<1> QED
  BY <1>1, InvHolds, PTL

\* resolve_jumps() sends every jump to the epilogue or to an instruction that
\* was emitted.
THEOREM JumpsResolveHolds == Spec => []JumpsResolve
<1>1. Inv => JumpsResolve
  <2> SUFFICES ASSUME Inv, phase = "run", NEW j \in DOMAIN jumps
               PROVE  Resolve(jumps[j]) # PROLOGUE
    BY DEF JumpsResolve
  <2>1. num_insts \in Nat /\ i = num_insts /\ Emitted(i)
    BY CodeShape DEF Inv, TypeOK
  <2>2. jumps[j] = EXIT \/ jumps[j] \in located
    BY <2>1 DEF Emitted, Index
  <2>3. located \subseteq Index
    BY DEF Inv, TypeOK
  <2> QED
    BY <2>1, <2>2, <2>3 DEF Resolve, EXIT, PROLOGUE, Index
<1> QED
  BY <1>1, InvHolds, PTL

\* The compiled code is where the interpreter is, over every branch and loop,
\* or they have parted where one of the two ends, or where a branch, division or
\* access hangs on a value that they computed differently.
THEOREM SamePathHolds == Spec => []SamePath
<1>1. Inv => SamePath
  BY DEF Inv, SamePath
<1> QED
  BY <1>1, InvHolds, PTL
=============================================================================
