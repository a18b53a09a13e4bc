-------------------------- MODULE InterruptsProofs --------------------------
(***************************************************************************)
(* Proofs about Interrupts.tla, for every set of entry points whose code   *)
(* keeps a discipline, and that the kernel and its test kernels keep it:   *)
(* nobody waits for a lock, handlers end their own interrupts, and double  *)
(* faults are real.                                                        *)
(***************************************************************************)
EXTENDS Interrupts, TLAPS

Operations ==
  {"without_interrupts", "restore", "enable", "disable", "enable_and_hlt", "hlt",
   "lock", "unlock", "load_tss", "load_idt", "initialize", "eoi", "read_port",
   "add_scancode", "executor_run", "allocated", "panic", "int3", "page_fault",
   "overflow", "iretq", "exit_qemu", "hlt_loop"}
Arguments == Locks \cup {"", "IDT", "TEST_IDT", "Success", "Failure"}
Instructions == Operations \X Arguments
Code == Seq(Instructions)
Tables == {"none", "IDT", "TEST_IDT"}
Lines == {Timer, Keyboard}

(* The entry points of the repository *)
EntryPoints ==
  {"kernel_main", "no_heap", "int3", "page_fault", "overflow", "test_kernel_main",
   "tests/basic_boot", "tests/heap_allocation", "tests/heap_allocation no_heap",
   "tests/should_panic", "tests/stack_overflow"}

(* A guard given back at position i of code c, at once or after one access *)
(* to the PICs                                                             *)
Gives(c, i, l) ==
  /\ i \in DOMAIN c
  /\ \/ c[i] = <<"unlock", l>>
     \/ /\ l = "PICS" /\ c[i][1] \in {"eoi", "initialize"}
        /\ i + 1 \in DOMAIN c /\ c[i + 1] = <<"unlock", l>>

(* Every guard is given back before anything else happens. *)
Paired(c) ==
  /\ c \in Code
  /\ \A i \in DOMAIN c :
       /\ c[i][1] = "lock" => c[i][2] \in Locks /\ Gives(c, i + 1, c[i][2])
       /\ c[i][1] = "exit_qemu" => c[i][2] # "reset"

(* Control does not run off the end of the code. *)
Ends(c) == c # <<>> /\ c[Len(c)][1] \in {"hlt_loop", "executor_run", "panic", "iretq"}

Later(c, i, op) == \E j \in DOMAIN c : j > i /\ c[j][1] = op
Earlier(c, i, op) == \E j \in DOMAIN c : j < i /\ c[j][1] = op

(* Locks other than the allocator's are taken with interrupts off: in      *)
(* without_interrupts, or before the PICs are initialized.                 *)
Protected(c, i) ==
  c[i][1] = "lock" /\ c[i][2] # "ALLOCATOR" =>
    (i > 1 /\ c[i - 1][1] = "without_interrupts") \/ Later(c, i, "initialize")

Enabling == {"enable", "enable_and_hlt", "executor_run"}
Faults == {"int3", "page_fault", "overflow"}

(* What code of program p does outside of handlers *)
OrdinaryInstructions(p) ==
  {x \in Instructions :
     /\ x[1] \notin {"eoi", "iretq", "add_scancode"}
     /\ x[1] = "load_idt" => \/ x[2] = "IDT"
                             \/ x[2] = "TEST_IDT" /\ p = "tests/stack_overflow"
     /\ x[1] \in {"int3", "page_fault"} => p # "tests/stack_overflow"
     /\ x[1] = "overflow" => p \in {"overflow", "tests/stack_overflow"}}

Ordinary(p, c) ==
  /\ Paired(c)
  /\ c \in Seq(OrdinaryInstructions(p))
  /\ \A i \in DOMAIN c : c[i][1] \in Enabling => ~Later(c, i, "initialize")

(* The discipline of the code of an entry point: interrupts are enabled,   *)
(* and exceptions raised, only after the three steps of the boot.          *)
BootSteps == {"load_tss", "load_idt", "initialize"}

Disciplined(p, c) ==
  /\ Ordinary(p, c) /\ Ends(c)
  /\ \A i \in DOMAIN c :
       /\ Protected(c, i)
       /\ c[i][1] \in Enabling \cup Faults => \A op \in BootSteps : Earlier(c, i, op)

(* ... and of a handler: it takes no memory, raises no exception and does  *)
(* not enable interrupts.                                                  *)
HandlerInstructions ==
  {x \in Instructions :
     /\ x[1] \notin Enabling \cup Faults \cup BootSteps \cup {"allocated"}
     /\ x[1] = "lock" => x[2] # "ALLOCATOR"}

HandlerCode(c) == Paired(c) /\ c \in Seq(HandlerInstructions)

EndsInterrupt(c) == \A i \in DOMAIN c : c[i][1] = "iretq" => Earlier(c, i, "eoi")

-----------------------------------------------------------------------------
(* The flag of the code below the handler, if one runs *)
Flag == IF Depth = 1 THEN int_enabled ELSE stack[2].iflag

(* The tables are loaded by the time instruction i of the code is reached. *)
LoadedAt(c, i, tss, table, pics) ==
  /\ tss \/ Earlier(c, i, "load_tss")
  /\ table # "none" \/ Earlier(c, i, "load_idt")
  /\ pics \/ Earlier(c, i, "initialize")

(* Code c of program p below the handler, with what its interrupt flag is, *)
(* or will be once restored, and which tables are loaded: they are loaded  *)
(* before interrupts can be on, or by the time an instruction needs them.  *)
BaseOK(p, c, flag, saved, tss, table, pics) ==
  /\ Ordinary(p, c) /\ Ends(c)
  /\ \A i \in DOMAIN c :
       /\ i > 1 => Protected(c, i)
       /\ c[i][1] \in Enabling \cup Faults => LoadedAt(c, i, tss, table, pics)
       /\ c[i][1] = "initialize" => ~flag /\ ~saved
  /\ c[1][1] = "lock" /\ c[1][2] # "ALLOCATOR" => ~flag
  /\ flag \/ saved => tss /\ table # "none" /\ pics

BaseInv ==
  BaseOK(program, stack[1].code, Flag, stack[1].saved, tss_loaded, idt, pic_initialized)

HandlerInv ==
  /\ HandlerCode(stack[2].code) /\ Ends(stack[2].code)
  /\ ~int_enabled /\ ~stack[2].saved
  /\ in_service \subseteq {stack[2].line} \cap Lines
  /\ in_service # {} => EndsInterrupt(stack[2].code)

(* A lock that is taken is about to be given back; only the allocator's    *)
(* may be left waiting below a handler.                                    *)
LockInv ==
  \A l \in Locks :
    owner[l] # 0 =>
      /\ owner[l] \in 1 .. Depth
      /\ Gives(stack[owner[l]].code, 1, l)
      /\ IF l = "ALLOCATOR" THEN owner[l] = 1 ELSE owner[l] = Depth /\ ~int_enabled

ContextType == [code : Code, line : Lines \cup {NoLine}, iflag : BOOLEAN, saved : BOOLEAN]

KernelTypeOK ==
  /\ stack \in Seq(ContextType) /\ Depth \in {1, 2}
  /\ int_enabled \in BOOLEAN /\ tss_loaded \in BOOLEAN /\ pic_initialized \in BOOLEAN
  /\ owner \in [Locks -> {0, 1, 2}]
  /\ idt \in Tables /\ (idt = "TEST_IDT" => program = "tests/stack_overflow")
  /\ pending \subseteq Lines /\ in_service \subseteq Lines
  /\ machine # "reset"

(* The inductive invariant *)
KernelInv ==
  /\ KernelTypeOK
  /\ BaseInv
  /\ Depth = 1 => in_service = {}
  /\ Depth = 2 => HandlerInv
  /\ LockInv
  /\ double_faulted => program \in {"overflow", "tests/stack_overflow"}

-----------------------------------------------------------------------------
(* What a step leaves of the code keeps the discipline. *)
LEMMA TailAt ==
  ASSUME NEW c \in Code, c # <<>>, NEW t, t = Tail(c)
  PROVE  /\ t \in Code /\ Len(c) \in Nat \ {0} /\ Len(t) = Len(c) - 1
         /\ DOMAIN c = 1 .. Len(c) /\ DOMAIN t = 1 .. Len(t)
         /\ \A i \in DOMAIN t : i \in Nat \ {0} /\ i + 1 \in DOMAIN c /\ t[i] = c[i + 1]
         /\ \A i \in DOMAIN c : i > 1 => i - 1 \in DOMAIN t /\ t[i - 1] = c[i]
<1>1. /\ t \in Code /\ Len(c) \in Nat \ {0} /\ Len(t) = Len(c) - 1
      /\ DOMAIN c = 1 .. Len(c) /\ DOMAIN t = 1 .. Len(t)
  BY DEF Code
<1>2. \A i \in 1 .. Len(c) - 1 : t[i] = c[i + 1]
  BY DEF Code
<1>3. \A i \in DOMAIN t : i \in Nat \ {0} /\ i + 1 \in DOMAIN c /\ t[i] = c[i + 1]
  BY <1>1, <1>2
<1>4. ASSUME NEW i \in DOMAIN c, i > 1 PROVE i - 1 \in DOMAIN t /\ t[i - 1] = c[i]
  <2>1. i - 1 \in DOMAIN t /\ (i - 1) + 1 = i
    BY <1>1, <1>4
  <2> QED BY <1>3, <2>1
<1> QED BY <1>1, <1>3, <1>4

LEMMA TailOrder ==
  ASSUME NEW c \in Code, c # <<>>, NEW t, t = Tail(c), NEW i \in DOMAIN t, NEW op
  PROVE  /\ Later(c, i + 1, op) <=> Later(t, i, op)
         /\ Later(t, i, op) => Later(c, 1, op)
         /\ Earlier(c, i + 1, op) <=> c[1][1] = op \/ Earlier(t, i, op)
<1>1. /\ Len(c) \in Nat \ {0} /\ DOMAIN c = 1 .. Len(c) /\ i \in Nat \ {0}
      /\ \A j \in DOMAIN t : j \in Nat \ {0} /\ j + 1 \in DOMAIN c /\ t[j] = c[j + 1]
      /\ \A j \in DOMAIN c : j > 1 => j - 1 \in DOMAIN t /\ t[j - 1] = c[j]
  <2>1. Len(c) \in Nat \ {0} /\ DOMAIN c = 1 .. Len(c)
    BY TailAt
  <2>2. \A j \in DOMAIN t : j \in Nat \ {0} /\ j + 1 \in DOMAIN c /\ t[j] = c[j + 1]
    BY TailAt
  <2>3. \A j \in DOMAIN c : j > 1 => j - 1 \in DOMAIN t /\ t[j - 1] = c[j]
    BY TailAt
  <2> QED BY <2>1, <2>2, <2>3, Zenon
<1>2. ASSUME Later(c, i + 1, op) PROVE Later(t, i, op)
  <2>1. PICK j \in DOMAIN c : j > i + 1 /\ c[j][1] = op
    BY <1>2 DEF Later
  <2>2. j - 1 \in DOMAIN t /\ j - 1 > i /\ t[j - 1] = c[j]
    BY <1>1, <2>1
  <2> QED BY <2>1, <2>2 DEF Later
<1>3. ASSUME Later(t, i, op) PROVE Later(c, i + 1, op) /\ Later(c, 1, op)
  <2>1. PICK j \in DOMAIN t : j > i /\ t[j][1] = op
    BY <1>3 DEF Later
  <2>2. j + 1 \in DOMAIN c /\ j + 1 > i + 1 /\ j + 1 > 1 /\ c[j + 1][1] = op
    BY <1>1, <2>1
  <2> QED BY <2>2 DEF Later
<1>4. ASSUME Earlier(c, i + 1, op) PROVE c[1][1] = op \/ Earlier(t, i, op)
  <2>1. PICK j \in DOMAIN c : j < i + 1 /\ c[j][1] = op
    BY <1>4 DEF Earlier
  <2>2. CASE j = 1
    BY <2>1, <2>2
  <2>3. CASE j # 1
    <3>1. j - 1 \in DOMAIN t /\ j - 1 < i /\ t[j - 1] = c[j]
      BY <1>1, <2>1, <2>3
    <3> QED BY <2>1, <3>1 DEF Earlier
  <2> QED BY <2>2, <2>3
<1>5. ASSUME c[1][1] = op PROVE Earlier(c, i + 1, op)
  <2>1. 1 \in DOMAIN c /\ 1 < i + 1
    BY <1>1
  <2> QED BY <1>5, <2>1 DEF Earlier
<1>6. ASSUME Earlier(t, i, op) PROVE Earlier(c, i + 1, op)
  <2>1. PICK j \in DOMAIN t : j < i /\ t[j][1] = op
    BY <1>6 DEF Earlier
  <2>2. j + 1 \in DOMAIN c /\ j + 1 < i + 1 /\ c[j + 1][1] = op
    BY <1>1, <2>1
  <2> QED BY <2>2 DEF Earlier
<1> QED BY <1>2, <1>3, <1>4, <1>5, <1>6, Zenon

LEMMA TailGives ==
  ASSUME NEW c \in Code, c # <<>>, NEW t, t = Tail(c), NEW i \in Nat \ {0}, NEW l
  PROVE  Gives(c, i + 1, l) <=> Gives(t, i, l)
<1>1. /\ \A j \in DOMAIN t : j + 1 \in DOMAIN c /\ t[j] = c[j + 1]
      /\ \A j \in DOMAIN c : j > 1 => j - 1 \in DOMAIN t
  BY TailAt
<1>2. \A j \in Nat \ {0} : j + 1 \in DOMAIN c <=> j \in DOMAIN t
  BY <1>1
<1>3. i \in Nat \ {0} /\ i + 1 \in Nat \ {0}
  OBVIOUS
<1> QED BY <1>1, <1>2, <1>3, Zenon DEF Gives

LEMMA TailPaired ==
  ASSUME NEW c, Paired(c), c # <<>>, NEW t, t = Tail(c)
  PROVE  Paired(t)
<1>1. c \in Code
  BY DEF Paired
<1>2. t \in Code
  BY <1>1, TailAt, Zenon
<1>3. \A i \in DOMAIN t : i \in Nat \ {0} /\ i + 1 \in DOMAIN c /\ t[i] = c[i + 1]
  BY <1>1, TailAt
<1>4. \A i \in DOMAIN t : \A l : Gives(c, (i + 1) + 1, l) <=> Gives(t, i + 1, l)
  <2>1. \A i \in DOMAIN t : i + 1 \in Nat \ {0}
    BY <1>3
  <2> QED BY <1>1, <2>1, TailGives, Zenon
<1>5. ASSUME NEW i \in DOMAIN t
      PROVE  /\ t[i][1] = "lock" => t[i][2] \in Locks /\ Gives(t, i + 1, t[i][2])
             /\ t[i][1] = "exit_qemu" => t[i][2] # "reset"
  <2>1. i + 1 \in DOMAIN c /\ t[i] = c[i + 1]
    BY <1>3
  <2>2. /\ c[i + 1][1] = "lock" => c[i + 1][2] \in Locks /\ Gives(c, (i + 1) + 1, c[i + 1][2])
        /\ c[i + 1][1] = "exit_qemu" => c[i + 1][2] # "reset"
    BY <2>1, Zenon DEF Paired
  <2> QED BY <1>4, <2>1, <2>2, Zenon
<1> QED BY <1>2, <1>5, Zenon DEF Paired

LEMMA TailEnds ==
  ASSUME NEW c \in Code, Ends(c), NEW t, t = Tail(c),
         c[1][1] \notin {"hlt_loop", "executor_run", "panic", "iretq"}
  PROVE  t # <<>> /\ Ends(t)
<1>1. c # <<>>
  BY DEF Ends
<1>2. /\ Len(c) \in Nat \ {0} /\ Len(t) = Len(c) - 1 /\ DOMAIN t = 1 .. Len(t)
      /\ \A i \in DOMAIN t : t[i] = c[i + 1]
  BY <1>1, TailAt
<1>3. Len(c) # 1
  BY Zenon DEF Ends
<1>4. Len(t) \in DOMAIN t /\ Len(t) + 1 = Len(c)
  BY <1>2, <1>3
<1>5. t # <<>> /\ t[Len(t)] = c[Len(c)]
  BY <1>2, <1>4
<1> QED BY <1>5, Zenon DEF Ends

LEMMA TailOrdinary ==
  ASSUME NEW p, NEW c, Ordinary(p, c), c # <<>>, NEW t, t = Tail(c)
  PROVE  Ordinary(p, t)
<1>1. Paired(c) /\ c \in Code /\ c \in Seq(OrdinaryInstructions(p))
  BY Zenon DEF Ordinary, Paired
<1>2. Paired(t)
  BY <1>1, TailPaired, Zenon
<1>3. t \in Seq(OrdinaryInstructions(p))
  BY <1>1
<1>4. \A i \in DOMAIN t : i + 1 \in DOMAIN c /\ t[i] = c[i + 1]
  BY <1>1, TailAt
<1>5. \A i \in DOMAIN t : Later(c, i + 1, "initialize") <=> Later(t, i, "initialize")
  BY <1>1, TailOrder, Zenon
<1>6. ASSUME NEW i \in DOMAIN t, t[i][1] \in Enabling PROVE ~Later(t, i, "initialize")
  <2>1. i + 1 \in DOMAIN c /\ t[i] = c[i + 1]
    BY <1>4, Zenon
  <2>2. ~Later(c, i + 1, "initialize")
    BY <1>6, <2>1, Zenon DEF Ordinary
  <2> QED BY <1>5, <2>2, Zenon
<1> QED BY <1>2, <1>3, <1>6, Zenon DEF Ordinary

LEMMA TailHandler ==
  ASSUME NEW c, HandlerCode(c), c # <<>>
  PROVE  HandlerCode(Tail(c))
<1>1. Paired(c) /\ c \in Seq(HandlerInstructions)
  BY Zenon DEF HandlerCode
<1>2. Paired(Tail(c))
  BY <1>1, TailPaired, Zenon
<1>3. Tail(c) \in Seq(HandlerInstructions)
  BY <1>1
<1> QED BY <1>2, <1>3, Zenon DEF HandlerCode

LEMMA TailEndsInterrupt ==
  ASSUME NEW c \in Code, c # <<>>, EndsInterrupt(c), c[1][1] # "eoi"
  PROVE  EndsInterrupt(Tail(c))
<1> DEFINE t == Tail(c)
<1>1. \A i \in DOMAIN t : i + 1 \in DOMAIN c /\ t[i] = c[i + 1]
  BY TailAt
<1>2. \A i \in DOMAIN t : Earlier(c, i + 1, "eoi") => Earlier(t, i, "eoi")
  BY TailOrder, Zenon
<1> HIDE DEF t
<1>3. ASSUME NEW i \in DOMAIN t, t[i][1] = "iretq" PROVE Earlier(t, i, "eoi")
  <2>1. Earlier(c, i + 1, "eoi")
    BY <1>1, <1>3, Zenon DEF EndsInterrupt
  <2> QED BY <1>2, <2>1, Zenon
<1> QED BY <1>3, Zenon DEF EndsInterrupt, t

-----------------------------------------------------------------------------
(* Code put together from pieces keeps the discipline. *)
LEMMA CatAt ==
  ASSUME NEW c \in Code, NEW d \in Code, NEW s, s = c \o d, NEW n, n = Len(c)
  PROVE  /\ s \in Code /\ n \in Nat /\ Len(d) \in Nat /\ Len(s) = n + Len(d)
         /\ DOMAIN c = 1 .. n /\ DOMAIN d = 1 .. Len(d) /\ DOMAIN s = 1 .. n + Len(d)
         /\ \A i \in DOMAIN c : i \in Nat /\ i \in DOMAIN s /\ s[i] = c[i]
         /\ \A i \in DOMAIN d : i \in Nat \ {0} /\ n + i \in DOMAIN s /\ s[n + i] = d[i]
         /\ \A i \in DOMAIN s : i \notin DOMAIN c => i - n \in DOMAIN d /\ n + (i - n) = i
<1>1. /\ s \in Code /\ n \in Nat /\ Len(d) \in Nat /\ Len(s) = n + Len(d)
      /\ DOMAIN c = 1 .. n /\ DOMAIN d = 1 .. Len(d) /\ DOMAIN s = 1 .. n + Len(d)
  BY DEF Code
<1>2. \A i \in 1 .. n : s[i] = c[i]
  BY <1>1 DEF Code
<1>3. ASSUME NEW i \in 1 .. Len(d) PROVE s[n + i] = d[i]
  BY <1>1 DEF Code
<1>4. \A i \in DOMAIN c : i \in Nat /\ i \in DOMAIN s /\ s[i] = c[i]
  BY <1>1, <1>2
<1>5. \A i \in DOMAIN d : i \in Nat \ {0} /\ n + i \in DOMAIN s /\ s[n + i] = d[i]
  BY <1>1, <1>3
<1>6. \A i \in DOMAIN s : i \notin DOMAIN c => i - n \in DOMAIN d /\ n + (i - n) = i
  BY <1>1
<1> QED BY <1>1, <1>4, <1>5, <1>6

LEMMA CatPaired ==
  ASSUME NEW c, NEW d, Paired(c), Paired(d)
  PROVE  Paired(c \o d)
<1> DEFINE s == c \o d
           n == Len(c)
<1>1. c \in Code /\ d \in Code /\ s = c \o d /\ n = Len(c)
  BY Zenon DEF Paired
<1> HIDE DEF s, n
<1>2. s \in Code
  BY <1>1, CatAt, Zenon
<1>3. n \in Nat /\ \A i \in DOMAIN c : i \in Nat /\ i \in DOMAIN s /\ s[i] = c[i]
  BY <1>1, CatAt
<1>4. \A i \in DOMAIN d : i \in Nat \ {0} /\ n + i \in DOMAIN s /\ s[n + i] = d[i]
  BY <1>1, CatAt
<1>5. \A i \in DOMAIN s : i \notin DOMAIN c => i - n \in DOMAIN d /\ n + (i - n) = i
  BY <1>1, CatAt
<1>6. ASSUME NEW i, NEW l, Gives(c, i, l) PROVE Gives(s, i, l)
  BY <1>3, <1>6, Zenon DEF Gives
<1>7. ASSUME NEW i, NEW l, Gives(d, i, l) PROVE Gives(s, n + i, l)
  <2>1. i \in DOMAIN d
    BY <1>7, Zenon DEF Gives
  <2>2. n + (i + 1) = (n + i) + 1
    BY <1>3, <1>4, <2>1
  <2> QED BY <1>4, <1>7, <2>2, Zenon DEF Gives
<1>8. ASSUME NEW i \in DOMAIN s
      PROVE  /\ s[i][1] = "lock" => s[i][2] \in Locks /\ Gives(s, i + 1, s[i][2])
             /\ s[i][1] = "exit_qemu" => s[i][2] # "reset"
  <2>1. CASE i \in DOMAIN c
    <3>1. /\ c[i][1] = "lock" => c[i][2] \in Locks /\ Gives(c, i + 1, c[i][2])
          /\ c[i][1] = "exit_qemu" => c[i][2] # "reset"
      BY <2>1, Zenon DEF Paired
    <3>2. s[i] = c[i]
      BY <1>3, <2>1, Zenon
    <3> QED BY <1>6, <3>1, <3>2, Zenon
  <2>2. CASE i \notin DOMAIN c
    <3> DEFINE k == i - n
    <3>1. k \in DOMAIN d /\ n + k = i
      BY <1>5, <2>2, Zenon
    <3> HIDE DEF k
    <3>2. s[i] = d[k] /\ n + (k + 1) = i + 1
      BY <1>3, <1>4, <3>1
    <3>3. /\ d[k][1] = "lock" => d[k][2] \in Locks /\ Gives(d, k + 1, d[k][2])
          /\ d[k][1] = "exit_qemu" => d[k][2] # "reset"
      BY <3>1, Zenon DEF Paired
    <3>4. Gives(d, k + 1, d[k][2]) => Gives(s, i + 1, d[k][2])
      BY <1>7, <3>2, Zenon
    <3> QED BY <3>2, <3>3, <3>4, Zenon
  <2> QED BY <2>1, <2>2, Zenon
<1> QED BY <1>2, <1>8, Zenon DEF Paired, s

Has(c, op) == \E j \in DOMAIN c : c[j][1] = op

LEMMA CatOrder ==
  ASSUME NEW c \in Code, NEW d \in Code, NEW s, s = c \o d, NEW n, n = Len(c), NEW op
  PROVE  /\ \A i \in DOMAIN c : /\ Later(s, i, op) <=> Later(c, i, op) \/ Has(d, op)
                                /\ Earlier(c, i, op) => Earlier(s, i, op)
         /\ \A k \in DOMAIN d : /\ Later(s, n + k, op) <=> Later(d, k, op)
                                /\ Has(c, op) \/ Earlier(d, k, op) => Earlier(s, n + k, op)
<1>1. /\ n \in Nat /\ DOMAIN c = 1 .. n
      /\ \A i \in DOMAIN c : i \in Nat /\ i \in DOMAIN s /\ s[i] = c[i]
  BY CatAt
<1>2. \A k \in DOMAIN d : k \in Nat \ {0} /\ n + k \in DOMAIN s /\ s[n + k] = d[k]
  BY CatAt
<1>3. \A j \in DOMAIN s : j \notin DOMAIN c => j - n \in DOMAIN d /\ n + (j - n) = j
  BY CatAt
<1> DEFINE InC(j) == j \in DOMAIN c /\ s[j][1] = op
           InD(j) == \E k \in DOMAIN d : j = n + k /\ d[k][1] = op
<1>4. ASSUME NEW j \in DOMAIN s, s[j][1] = op PROVE InC(j) \/ InD(j)
  <2>1. CASE j \in DOMAIN c
    BY <1>4, <2>1, Zenon
  <2>2. CASE j \notin DOMAIN c
    <3>1. j - n \in DOMAIN d /\ n + (j - n) = j
      BY <1>3, <2>2, Zenon
    <3>2. s[n + (j - n)] = d[j - n]
      BY <1>2, <3>1, Zenon
    <3> QED BY <1>4, <3>1, <3>2, Zenon
  <2> QED BY <2>1, <2>2, Zenon
<1>5. ASSUME NEW i \in DOMAIN c
      PROVE  /\ Later(s, i, op) <=> Later(c, i, op) \/ Has(d, op)
             /\ Earlier(c, i, op) => Earlier(s, i, op)
  <2>1. \A k \in DOMAIN d : n + k > i
    BY <1>1, <1>2
  <2>2. Has(d, op) => Later(s, i, op)
    BY <1>2, <2>1, Zenon DEF Later, Has
  <2>3. Later(c, i, op) => Later(s, i, op)
    BY <1>1, Zenon DEF Later
  <2>4. ASSUME Later(s, i, op) PROVE Later(c, i, op) \/ Has(d, op)
    <3>1. PICK j \in DOMAIN s : j > i /\ s[j][1] = op
      BY <2>4, Zenon DEF Later
    <3>2. CASE InC(j)
      BY <1>1, <3>1, <3>2, Zenon DEF Later
    <3>3. CASE InD(j)
      BY <3>3, Zenon DEF Has
    <3> QED BY <1>4, <3>1, <3>2, <3>3, Zenon
  <2>5. Earlier(c, i, op) => Earlier(s, i, op)
    BY <1>1, Zenon DEF Earlier
  <2> QED BY <2>2, <2>3, <2>4, <2>5
<1>6. ASSUME NEW k \in DOMAIN d
      PROVE  /\ Later(s, n + k, op) <=> Later(d, k, op)
             /\ Has(c, op) \/ Earlier(d, k, op) => Earlier(s, n + k, op)
  <2>1. \A j \in DOMAIN d : /\ n + j > n + k <=> j > k
                            /\ n + j < n + k <=> j < k
    BY <1>1, <1>2
  <2>2. \A j \in DOMAIN c : j < n + k /\ ~(j > n + k)
    BY <1>1, <1>2
  <2>3. ASSUME Later(d, k, op) PROVE Later(s, n + k, op)
    <3>1. PICK j \in DOMAIN d : j > k /\ d[j][1] = op
      BY <2>3, Zenon DEF Later
    <3>2. n + j > n + k /\ n + j \in DOMAIN s /\ s[n + j] = d[j]
      BY <1>2, <2>1, <3>1, Zenon
    <3> QED BY <3>1, <3>2, Zenon DEF Later
  <2>4. ASSUME Later(s, n + k, op) PROVE Later(d, k, op)
    <3>1. PICK j \in DOMAIN s : j > n + k /\ s[j][1] = op
      BY <2>4, Zenon DEF Later
    <3>2. InD(j)
      BY <1>4, <2>2, <3>1, Zenon
    <3> QED BY <2>1, <3>1, <3>2, Zenon DEF Later
  <2>5. Has(c, op) => Earlier(s, n + k, op)
    BY <1>1, <2>2, Zenon DEF Earlier, Has
  <2>6. Earlier(d, k, op) => Earlier(s, n + k, op)
    BY <1>2, <2>1, Zenon DEF Earlier
  <2> QED BY <2>3, <2>4, <2>5, <2>6
<1> QED BY <1>5, <1>6

(* Pieces of code behind the boot: their locks are taken inside            *)
(* without_interrupts.                                                     *)
Guarded(c) ==
  \A i \in DOMAIN c : c[i][1] = "lock" /\ c[i][2] # "ALLOCATOR" =>
                        i > 1 /\ c[i - 1][1] = "without_interrupts"
Body(p, c) == Ordinary(p, c) /\ Guarded(c) /\ ~Has(c, "initialize")

LEMMA CatOrdinary ==
  ASSUME NEW p, NEW c, NEW d, Ordinary(p, c), Ordinary(p, d),
         ~Has(d, "initialize") \/ \A i \in DOMAIN c : c[i][1] \notin Enabling
  PROVE  Ordinary(p, c \o d)
<1> DEFINE s == c \o d
           n == Len(c)
<1>1. /\ Paired(c) /\ Paired(d) /\ c \in Code /\ d \in Code /\ s = c \o d /\ n = Len(c)
      /\ c \in Seq(OrdinaryInstructions(p)) /\ d \in Seq(OrdinaryInstructions(p))
  BY Zenon DEF Ordinary, Paired
<1>2. Paired(s)
  BY <1>1, CatPaired, Zenon
<1>3. s \in Seq(OrdinaryInstructions(p))
  BY <1>1
<1> HIDE DEF s, n
<1>4. \A i \in DOMAIN c : s[i] = c[i]
  BY <1>1, CatAt
<1>5. \A i \in DOMAIN d : s[n + i] = d[i]
  BY <1>1, CatAt
<1>6. \A i \in DOMAIN s : i \notin DOMAIN c => i - n \in DOMAIN d /\ n + (i - n) = i
  BY <1>1, CatAt
<1>7. ASSUME NEW i \in DOMAIN s, s[i][1] \in Enabling PROVE ~Later(s, i, "initialize")
  <2>1. CASE i \in DOMAIN c
    <3>1. ~Later(c, i, "initialize")
      BY <1>4, <1>7, <2>1, Zenon DEF Ordinary
    <3>2. Later(s, i, "initialize") <=> Later(c, i, "initialize") \/ Has(d, "initialize")
      BY <1>1, <2>1, CatOrder, Zenon
    <3>3. c[i][1] \in Enabling
      BY <1>4, <1>7, <2>1, Zenon
    <3> QED BY <2>1, <3>1, <3>2, <3>3, Zenon
  <2>2. CASE i \notin DOMAIN c
    <3> DEFINE k == i - n
    <3>1. k \in DOMAIN d /\ n + k = i /\ s[n + k] = d[k]
      BY <1>5, <1>6, <2>2, Zenon
    <3> HIDE DEF k
    <3>2. ~Later(d, k, "initialize")
      BY <1>7, <3>1, Zenon DEF Ordinary
    <3>3. Later(s, n + k, "initialize") <=> Later(d, k, "initialize")
      BY <1>1, <3>1, CatOrder, Zenon
    <3> QED BY <3>1, <3>2, <3>3, Zenon
  <2> QED BY <2>1, <2>2, Zenon
<1> QED BY <1>2, <1>3, <1>7, Zenon DEF Ordinary, s

(* Positions in code that starts with the guarded piece or boot c *)
LEMMA CatProtected ==
  ASSUME NEW c \in Code, NEW d \in Code, NEW s, s = c \o d, NEW n, n = Len(c)
  PROVE  /\ \A i \in DOMAIN c : Protected(c, i) => Protected(s, i)
         /\ \A k \in DOMAIN d : k > 1 /\ Protected(d, k) => Protected(s, n + k)
<1>1. n \in Nat /\ DOMAIN c = 1 .. n /\ \A i \in DOMAIN c : s[i] = c[i]
  BY CatAt
<1>2. DOMAIN d = 1 .. Len(d) /\ Len(d) \in Nat /\ \A i \in DOMAIN d : s[n + i] = d[i]
  BY CatAt
<1>3. ASSUME NEW i \in DOMAIN c, Protected(c, i) PROVE Protected(s, i)
  <2>1. s[i] = c[i] /\ (i > 1 => s[i - 1] = c[i - 1])
    BY <1>1
  <2>2. Later(c, i, "initialize") => Later(s, i, "initialize")
    BY CatOrder, Zenon
  <2> QED BY <1>3, <2>1, <2>2, Zenon DEF Protected
<1>4. ASSUME NEW k \in DOMAIN d, k > 1, Protected(d, k) PROVE Protected(s, n + k)
  <2>1. /\ n + k > 1 /\ k - 1 \in DOMAIN d /\ n + (k - 1) = (n + k) - 1
    BY <1>1, <1>2, <1>4
  <2>2. s[n + k] = d[k] /\ s[(n + k) - 1] = d[k - 1]
    BY <1>2, <2>1, Zenon
  <2>3. Later(d, k, "initialize") => Later(s, n + k, "initialize")
    BY CatOrder, Zenon
  <2> QED BY <1>4, <2>1, <2>2, <2>3, Zenon DEF Protected
<1> QED BY <1>3, <1>4, Zenon

LEMMA CatBody ==
  ASSUME NEW p, NEW c, NEW d, Body(p, c), Body(p, d)
  PROVE  Body(p, c \o d)
<1> DEFINE s == c \o d
           n == Len(c)
<1>1. /\ Ordinary(p, c) /\ Ordinary(p, d) /\ Guarded(c) /\ Guarded(d)
      /\ ~Has(c, "initialize") /\ ~Has(d, "initialize")
  BY Zenon DEF Body
<1>0. c \in Code /\ d \in Code /\ s = c \o d /\ n = Len(c)
  BY <1>1, Zenon DEF Ordinary, Paired
<1>2. Ordinary(p, s)
  BY <1>1, CatOrdinary, Zenon
<1> HIDE DEF s, n
<1>3. n \in Nat /\ DOMAIN c = 1 .. n /\ \A i \in DOMAIN c : s[i] = c[i]
  BY <1>0, CatAt
<1>4. DOMAIN d = 1 .. Len(d) /\ Len(d) \in Nat /\ \A i \in DOMAIN d : s[n + i] = d[i]
  BY <1>0, CatAt
<1>5. \A i \in DOMAIN s : i \notin DOMAIN c => i - n \in DOMAIN d /\ n + (i - n) = i
  BY <1>0, CatAt
<1>6. ASSUME NEW i \in DOMAIN s
      PROVE  /\ s[i][1] # "initialize"
             /\ s[i][1] = "lock" /\ s[i][2] # "ALLOCATOR" =>
                  i > 1 /\ s[i - 1][1] = "without_interrupts"
  <2>1. CASE i \in DOMAIN c
    <3>1. s[i] = c[i] /\ (i > 1 => s[i - 1] = c[i - 1])
      BY <1>3, <2>1
    <3> QED BY <1>1, <2>1, <3>1, Zenon DEF Guarded, Has
  <2>2. CASE i \notin DOMAIN c
    <3> DEFINE k == i - n
    <3>1. k \in DOMAIN d /\ n + k = i /\ s[i] = d[k]
      BY <1>4, <1>5, <2>2, Zenon
    <3> HIDE DEF k
    <3>2. k > 1 => i > 1 /\ k - 1 \in DOMAIN d /\ n + (k - 1) = i - 1
      BY <1>3, <1>4, <3>1
    <3>3. k > 1 => s[i - 1] = d[k - 1]
      BY <1>4, <3>2, Zenon
    <3> QED BY <1>1, <3>1, <3>2, <3>3, Zenon DEF Guarded, Has
  <2> QED BY <2>1, <2>2, Zenon
<1> QED BY <1>2, <1>6, Zenon DEF Body, Guarded, Has, s

LEMMA CatHandler ==
  ASSUME NEW c, NEW d, HandlerCode(c), HandlerCode(d)
  PROVE  HandlerCode(c \o d)
<1>1. /\ Paired(c) /\ Paired(d)
      /\ c \in Seq(HandlerInstructions) /\ d \in Seq(HandlerInstructions)
  BY Zenon DEF HandlerCode
<1>2. Paired(c \o d)
  BY <1>1, CatPaired, Zenon
<1>3. c \o d \in Seq(HandlerInstructions)
  BY <1>1
<1> QED BY <1>2, <1>3, Zenon DEF HandlerCode

LEMMA CatEnds ==
  ASSUME NEW c \in Code, NEW d \in Code, Ends(d)
  PROVE  Ends(c \o d)
<1> DEFINE s == c \o d
<1>1. d # <<>> /\ Len(d) \in Nat \ {0} /\ Len(c) \in Nat
  BY DEF Ends, Code
<1>2. Len(s) = Len(c) + Len(d)
  BY DEF Code
<1>3. s[Len(s)] = d[Len(d)] /\ s # <<>>
  BY <1>1, <1>2 DEF Code
<1> QED BY <1>3, Zenon DEF Ends

-----------------------------------------------------------------------------
(* The pieces that the kernel's code is made of *)
LEMMA Single ==
  ASSUME NEW x \in Instructions, x[1] # "lock", x[1] = "exit_qemu" => x[2] # "reset",
         NEW p
  PROVE  /\ x \in OrdinaryInstructions(p) /\ x[1] # "initialize" => Body(p, <<x>>)
         /\ x \in HandlerInstructions => HandlerCode(<<x>>)
         /\ x[1] \in {"hlt_loop", "executor_run", "panic", "iretq"} => Ends(<<x>>)
<1> DEFINE c == <<x>>
<1>1. c \in Code /\ DOMAIN c = {1} /\ c[1] = x /\ Len(c) = 1 /\ c # <<>>
  BY DEF Code
<1>2. /\ x \in OrdinaryInstructions(p) => c \in Seq(OrdinaryInstructions(p))
      /\ x \in HandlerInstructions => c \in Seq(HandlerInstructions)
  OBVIOUS
<1> HIDE DEF c
<1>3. Paired(c)
  BY <1>1, Zenon DEF Paired
<1>4. ~Later(c, 1, "initialize")
  BY <1>1 DEF Later
<1>5. Guarded(c) /\ (x[1] # "initialize" => ~Has(c, "initialize"))
  BY <1>1, Zenon DEF Guarded, Has
<1>6. x \in OrdinaryInstructions(p) => Ordinary(p, c)
  BY <1>1, <1>2, <1>3, <1>4, Zenon DEF Ordinary
<1>7. x[1] \in {"hlt_loop", "executor_run", "panic", "iretq"} => Ends(c)
  BY <1>1, Zenon DEF Ends
<1> QED BY <1>2, <1>3, <1>5, <1>6, <1>7, Zenon DEF Body, HandlerCode, c

LEMMA One ==
  ASSUME NEW x \in Instructions, NEW c, c = <<x>>
  PROVE  c \in Code /\ Len(c) = 1 /\ DOMAIN c = 1 .. 1 /\ c[1] = x
<1>1. c \in Code /\ Len(c) = 1 /\ c[1] = x
  BY DEF Code
<1> QED BY <1>1 DEF Code

LEMMA CodeDomain ==
  ASSUME NEW c \in Code
  PROVE  Len(c) \in Nat /\ DOMAIN c = 1 .. Len(c) /\ \A i \in DOMAIN c : c[i] \in Instructions
  BY DEF Code

Prefixed(s, x, c) ==
  s \in Code /\ Len(s) = 1 + Len(c) /\ s[1] = x /\ \A i \in 1 .. Len(c) : s[i + 1] = c[i]
Extended(s, c, x) ==
  s \in Code /\ Len(s) = Len(c) + 1 /\ s[Len(c) + 1] = x /\ \A i \in 1 .. Len(c) : s[i] = c[i]

LEMMA Prepend ==
  ASSUME NEW x \in Instructions, NEW c \in Code
  PROVE  Prefixed(<<x>> \o c, x, c)
<1> DEFINE s == <<x>> \o c
<1>1. s \in Code /\ Len(s) = 1 + Len(c) /\ s[1] = x
  BY DEF Code
<1>2. ASSUME NEW i \in 1 .. Len(c) PROVE s[i + 1] = c[i]
  BY <1>1, <1>2 DEF Code
<1> QED BY <1>1, <1>2 DEF Prefixed

LEMMA Add ==
  ASSUME NEW x \in Instructions, NEW c \in Code
  PROVE  Extended(c \o <<x>>, c, x)
<1> DEFINE s == c \o <<x>>
<1>1. s \in Code /\ Len(s) = 1 + Len(c) /\ s[Len(c) + 1] = x
  BY DEF Code
<1>2. ASSUME NEW i \in 1 .. Len(c) PROVE s[i] = c[i]
  BY <1>1, <1>2 DEF Code
<1> QED BY <1>1, <1>2 DEF Extended

Quad(x, y, z, w) == (<<x>> \o (<<y>> \o <<z>>)) \o <<w>>

IsQuad(c, x, y, z, w) ==
  /\ c \in Code /\ Len(c) = 4 /\ DOMAIN c = 1 .. 4
  /\ c[1] = x /\ c[2] = y /\ c[3] = z /\ c[4] = w

LEMMA Four ==
  ASSUME NEW x \in Instructions, NEW y \in Instructions, NEW z \in Instructions, NEW w \in Instructions,
         NEW c, c = Quad(x, y, z, w)
  PROVE  IsQuad(c, x, y, z, w)
<1>1. PICK b : b = <<z>> BY Zenon
<1>2. b \in Code /\ Len(b) = 1 /\ b[1] = z
  BY <1>1, One, Zenon
<1>3. PICK d : d = <<y>> \o b BY Zenon
<1>4. Prefixed(d, y, b)
  BY <1>2, <1>3, Prepend, Zenon
<1>5. d \in Code /\ Len(d) = 2 /\ d[1] = y /\ d[2] = z
  BY <1>2, <1>4 DEF Prefixed
<1>6. PICK e : e = <<x>> \o d BY Zenon
<1>7. Prefixed(e, x, d)
  BY <1>5, <1>6, Prepend, Zenon
<1>8. e \in Code /\ Len(e) = 3 /\ e[1] = x /\ e[2] = y /\ e[3] = z
  BY <1>5, <1>7 DEF Prefixed
<1>9. c = e \o <<w>>
  BY <1>1, <1>3, <1>6, Zenon DEF Quad
<1>10. Extended(c, e, w)
  BY <1>8, <1>9, Add, Zenon
<1>11. c \in Code /\ Len(c) = 4 /\ c[1] = x /\ c[2] = y /\ c[3] = z /\ c[4] = w
  BY <1>8, <1>10 DEF Extended
<1>12. DOMAIN c = 1 .. 4
  BY <1>11, CodeDomain, Zenon
<1> QED BY <1>11, <1>12, Zenon DEF IsQuad

LEMMA Retyped ==
  ASSUME NEW S, NEW c \in Code, \A i \in DOMAIN c : c[i] \in S
  PROVE  c \in Seq(S)
<1>1. Len(c) \in Nat /\ DOMAIN c = 1 .. Len(c) /\ c = [i \in 1 .. Len(c) |-> c[i]]
  BY DEF Code
<1> QED BY <1>1

LEMMA FourBody ==
  ASSUME NEW p, NEW c \in Code, Len(c) = 4, NEW l \in Locks, l # "ALLOCATOR",
         c[1][1] = "without_interrupts", c[2][1] = "lock", c[2][2] = l,
         c[3] = <<"unlock", l>>, c[3][1] = "unlock", c[4][1] = "restore"
  PROVE  Body(p, c) /\ HandlerCode(c)
<1>1. /\ DOMAIN c = 1 .. 4 /\ 1 \in DOMAIN c /\ 2 \in DOMAIN c /\ 3 \in DOMAIN c /\ 4 \in DOMAIN c
      /\ \A i \in DOMAIN c : i = 1 \/ i = 2 \/ i = 3 \/ i = 4
  BY CodeDomain
<1>3. \A i \in DOMAIN c : c[i] \in Instructions
  BY CodeDomain, Zenon
<1>4. \A i \in DOMAIN c : c[i][1] \in {"without_interrupts", "lock", "unlock", "restore"}
  BY <1>1, Zenon
<1>5. \A i \in DOMAIN c : c[i] \in OrdinaryInstructions(p)
  BY <1>3, <1>4, Zenon DEF OrdinaryInstructions
<1>6. \A i \in DOMAIN c : c[i] \in HandlerInstructions
  <2>1. \A i \in DOMAIN c : c[i][1] = "lock" => i = 2
    BY <1>1, Zenon
  <2> QED BY <1>3, <1>4, <2>1, Zenon DEF HandlerInstructions, Enabling, Faults, BootSteps
<1>7. c \in Seq(OrdinaryInstructions(p)) /\ c \in Seq(HandlerInstructions)
  BY <1>5, <1>6, Retyped, Zenon
<1>8. Gives(c, 3, l)
  BY <1>1, Zenon DEF Gives
<1>9. ASSUME NEW i \in DOMAIN c
      PROVE  /\ c[i][1] = "lock" => c[i][2] \in Locks /\ Gives(c, i + 1, c[i][2])
             /\ c[i][1] = "exit_qemu" => c[i][2] # "reset"
  <2>1. c[i][1] = "lock" => i = 2
    BY <1>1, Zenon
  <2>2. 2 + 1 = 3
    OBVIOUS
  <2> QED BY <1>4, <1>8, <2>1, <2>2, Zenon
<1>10. Paired(c)
  BY <1>9, Zenon DEF Paired
<1>11. Guarded(c)
  <2>1. 2 > 1 /\ 2 - 1 = 1
    OBVIOUS
  <2>2. \A i \in DOMAIN c : c[i][1] = "lock" => i = 2
    BY <1>1, Zenon
  <2> QED BY <2>1, <2>2, Zenon DEF Guarded
<1>12. ~Has(c, "initialize") /\ \A i \in DOMAIN c : c[i][1] \notin Enabling
  BY <1>4, Zenon DEF Has, Enabling
<1>13. Ordinary(p, c)
  BY <1>7, <1>10, <1>12, Zenon DEF Ordinary
<1> QED BY <1>7, <1>10, <1>11, <1>12, <1>13, Zenon DEF Body, HandlerCode

LEMMA Instruction ==
  ASSUME NEW op \in Operations, NEW a \in Arguments, NEW x, x = <<op, a>>
  PROVE  x \in Instructions /\ x[1] = op /\ x[2] = a
  BY DEF Instructions

LEMMA PrintBody ==
  ASSUME NEW p, NEW l \in Locks \ {"ALLOCATOR"},
         NEW c, c = Do("without_interrupts") \o Locked(l) \o Do("restore")
  PROVE  Body(p, c) /\ HandlerCode(c)
<1>0. l \in Locks /\ l \in Arguments /\ "" \in Arguments /\ l # "ALLOCATOR"
  BY Zenon DEF Arguments
<1>1. PICK x : x = <<"without_interrupts", "">> BY Zenon
<1>2. PICK y : y = <<"lock", l>> BY Zenon
<1>3. PICK z : z = <<"unlock", l>> BY Zenon
<1>4. PICK w : w = <<"restore", "">> BY Zenon
<1>5. /\ "without_interrupts" \in Operations /\ "lock" \in Operations
      /\ "unlock" \in Operations /\ "restore" \in Operations
  BY Zenon DEF Operations
<1>6. /\ x \in Instructions /\ x[1] = "without_interrupts" /\ x[2] = ""
      /\ y \in Instructions /\ y[1] = "lock" /\ y[2] = l
      /\ z \in Instructions /\ z[1] = "unlock" /\ z[2] = l
      /\ w \in Instructions /\ w[1] = "restore" /\ w[2] = ""
  BY <1>0, <1>1, <1>2, <1>3, <1>4, <1>5, Instruction, Zenon
<1>7. c = Quad(x, y, z, w)
  BY <1>1, <1>2, <1>3, <1>4, Zenon DEF Quad, Do, Locked, Lock, Unlock
<1>8. x \in Instructions /\ y \in Instructions /\ z \in Instructions /\ w \in Instructions
  BY <1>6, Zenon
<1>9. IsQuad(c, x, y, z, w)
  BY <1>7, <1>8, Four, Zenon
<1>10. /\ c \in Code /\ Len(c) = 4
       /\ c[1] = x /\ c[2] = y /\ c[3] = z /\ c[4] = w
  BY <1>9, Zenon DEF IsQuad
<1> QED BY <1>0, <1>3, <1>6, <1>10, FourBody, Zenon

-----------------------------------------------------------------------------
(* Code before the boot, which takes no part in it, and code from its      *)
(* start                                                                   *)
Quiet(c) == \A i \in DOMAIN c : c[i][1] \notin Enabling \cup Faults \cup {"initialize"}

Boot(p, c) ==
  /\ Ordinary(p, c)
  /\ \A op \in BootSteps : Has(c, op)
  /\ \A i \in DOMAIN c :
       /\ Protected(c, i)
       /\ c[i][1] \in Enabling \cup Faults => \A op \in BootSteps : Earlier(c, i, op)

Pieced(s, c, d, n) ==
  /\ \A i \in DOMAIN c : i \in DOMAIN s /\ s[i] = c[i]
  /\ \A k \in DOMAIN d : n + k \in DOMAIN s /\ s[n + k] = d[k]
  /\ \A i \in DOMAIN s : \/ i \in DOMAIN c /\ s[i] = c[i]
                         \/ \E k \in DOMAIN d : i = n + k /\ s[i] = d[k]

LEMMA CatCases ==
  ASSUME NEW c \in Code, NEW d \in Code, NEW s, s = c \o d, NEW n, n = Len(c)
  PROVE  Pieced(s, c, d, n)
<1>1. \A j \in DOMAIN c : j \in DOMAIN s /\ s[j] = c[j]
  BY CatAt, SMTT(30)
<1>2. \A k \in DOMAIN d : n + k \in DOMAIN s /\ s[n + k] = d[k]
  BY CatAt, SMTT(30)
<1>3. \A i \in DOMAIN s : i \notin DOMAIN c => i - n \in DOMAIN d /\ n + (i - n) = i
  BY CatAt, SMTT(30)
<1>4. ASSUME NEW i \in DOMAIN s
      PROVE  \/ i \in DOMAIN c /\ s[i] = c[i]
             \/ \E k \in DOMAIN d : i = n + k /\ s[i] = d[k]
  <2>1. CASE i \in DOMAIN c
    BY <1>1, <2>1, Zenon
  <2>2. CASE i \notin DOMAIN c
    <3>1. i - n \in DOMAIN d /\ i = n + (i - n)
      BY <1>3, <2>2, Zenon
    <3>2. s[i] = d[i - n]
      BY <1>2, <3>1, Zenon
    <3> QED BY <3>1, <3>2, Zenon
  <2> QED BY <2>1, <2>2, Zenon
<1> QED BY <1>1, <1>2, <1>4, Zenon DEF Pieced

LEMMA CatQuiet ==
  ASSUME NEW c \in Code, NEW d \in Code, Quiet(c), Quiet(d)
  PROVE  Quiet(c \o d)
<1>1. PICK s : s = c \o d BY Zenon
<1>2. PICK n : n = Len(c) BY Zenon
<1>3. ASSUME NEW i \in DOMAIN s PROVE s[i][1] \notin Enabling \cup Faults \cup {"initialize"}
  <2>1. Pieced(s, c, d, n)
    BY <1>1, <1>2, CatCases, Zenon
  <2>2. CASE i \in DOMAIN c /\ s[i] = c[i]
    BY <2>2, Zenon DEF Quiet
  <2>3. CASE \E k \in DOMAIN d : i = n + k /\ s[i] = d[k]
    BY <2>3, Zenon DEF Quiet
  <2> QED BY <2>1, <2>2, <2>3, Zenon DEF Pieced
<1> QED BY <1>1, <1>3, Zenon DEF Quiet

LEMMA BeforeBoot ==
  ASSUME NEW p, NEW c, NEW d, Ordinary(p, c), Quiet(c), Boot(p, d)
  PROVE  Boot(p, c \o d)
<1>1. PICK s : s = c \o d BY Zenon
<1>2. PICK n : n = Len(c) BY Zenon
<1>3. c \in Code /\ d \in Code /\ Ordinary(p, d)
  BY Zenon DEF Ordinary, Paired, Boot
<1>4. \A i \in DOMAIN c : c[i][1] \notin Enabling
  BY Zenon DEF Quiet
<1>5. Ordinary(p, s)
  BY <1>1, <1>3, <1>4, CatOrdinary, Zenon
<1>6. Pieced(s, c, d, n)
  BY <1>1, <1>2, <1>3, CatCases, Zenon
<1>7. \A op \in BootSteps : Has(s, op)
  <2>1. \A op \in BootSteps : Has(d, op)
    BY Zenon DEF Boot
  <2>2. \A k \in DOMAIN d : n + k \in DOMAIN s /\ s[n + k] = d[k]
    BY <1>6, Zenon DEF Pieced
  <2>3. ASSUME NEW op \in BootSteps PROVE Has(s, op)
    <3>1. PICK k \in DOMAIN d : d[k][1] = op
      BY <2>1, Zenon DEF Has
    <3>2. n + k \in DOMAIN s /\ s[n + k][1] = op
      BY <2>2, <3>1, Zenon
    <3> QED BY <3>2, Zenon DEF Has
  <2> QED BY <2>3, Zenon
<1>8. ASSUME NEW i \in DOMAIN s
      PROVE  /\ Protected(s, i)
             /\ s[i][1] \in Enabling \cup Faults => \A op \in BootSteps : Earlier(s, i, op)
  <2>1. CASE i \in DOMAIN c /\ s[i] = c[i]
    <3>1. Has(d, "initialize")
      BY Zenon DEF Boot, BootSteps
    <3>2. Later(s, i, "initialize")
      BY <1>1, <1>2, <1>3, <2>1, <3>1, CatOrder, Zenon
    <3> QED BY <2>1, <3>2, Zenon DEF Protected, Quiet
  <2>2. CASE \E k \in DOMAIN d : i = n + k /\ s[i] = d[k]
    <3>1. PICK k \in DOMAIN d : i = n + k /\ s[i] = d[k]
      BY <2>2, Zenon
    <3>2. /\ Protected(d, k)
          /\ d[k][1] \in Enabling \cup Faults => \A op \in BootSteps : Earlier(d, k, op)
      BY Zenon DEF Boot
    <3>3. \A op : Earlier(d, k, op) => Earlier(s, n + k, op)
      BY <1>1, <1>2, <1>3, CatOrder, Zenon
    <3>4. Later(d, k, "initialize") => Later(s, n + k, "initialize")
      BY <1>1, <1>2, <1>3, CatOrder, Zenon
    <3>5. Protected(s, n + k)
      <4>1. CASE k > 1
        BY <1>1, <1>2, <1>3, <3>2, <4>1, CatProtected, Zenon
      <4>2. CASE ~(k > 1)
        BY <3>1, <3>2, <3>4, <4>2, Zenon DEF Protected
      <4> QED BY <4>1, <4>2, Zenon
    <3> QED BY <3>1, <3>2, <3>3, <3>5, Zenon
  <2> QED BY <1>6, <2>1, <2>2, Zenon DEF Pieced
<1> QED BY <1>1, <1>5, <1>7, <1>8, Zenon DEF Boot

LEMMA AfterBoot ==
  ASSUME NEW p, NEW c, NEW d, Boot(p, c), Body(p, d)
  PROVE  Boot(p, c \o d)
<1>1. PICK s : s = c \o d BY Zenon
<1>2. PICK n : n = Len(c) BY Zenon
<1>3. c \in Code /\ d \in Code /\ Ordinary(p, c) /\ Ordinary(p, d) /\ ~Has(d, "initialize")
  BY Zenon DEF Ordinary, Paired, Boot, Body
<1>5. Ordinary(p, s)
  BY <1>1, <1>3, CatOrdinary, Zenon
<1>6. Pieced(s, c, d, n)
  BY <1>1, <1>2, <1>3, CatCases, Zenon
<1>7. \A op \in BootSteps : Has(s, op) /\ Has(c, op)
  <2>1. \A op \in BootSteps : Has(c, op)
    BY Zenon DEF Boot
  <2> QED BY <1>6, <2>1, Zenon DEF Has, Pieced
<1>8. ASSUME NEW i \in DOMAIN s
      PROVE  /\ Protected(s, i)
             /\ s[i][1] \in Enabling \cup Faults => \A op \in BootSteps : Earlier(s, i, op)
  <2>1. CASE i \in DOMAIN c /\ s[i] = c[i]
    <3>1. Protected(s, i)
      <4>1. Protected(c, i)
        BY <2>1, Zenon DEF Boot
      <4> QED BY <1>1, <1>2, <1>3, <2>1, <4>1, CatProtected, Zenon
    <3>2. \A op : Earlier(c, i, op) => Earlier(s, i, op)
      BY <1>1, <1>2, <1>3, <2>1, CatOrder, Zenon
    <3> QED BY <2>1, <3>1, <3>2, Zenon DEF Boot
  <2>2. CASE \E k \in DOMAIN d : i = n + k /\ s[i] = d[k]
    <3>1. PICK k \in DOMAIN d : i = n + k /\ s[i] = d[k]
      BY <2>2, Zenon
    <3>2. \A op \in BootSteps : Earlier(s, n + k, op)
      BY <1>1, <1>2, <1>3, <1>7, CatOrder, Zenon
    <3>3. Protected(s, n + k)
      <4>1. CASE k > 1
        <5>1. Protected(d, k)
          BY <4>1, Zenon DEF Body, Guarded, Protected
        <5> QED BY <1>1, <1>2, <1>3, <4>1, <5>1, CatProtected, Zenon
      <4>2. CASE ~(k > 1)
        BY <3>1, <4>2, Zenon DEF Protected, Body, Guarded
      <4> QED BY <4>1, <4>2, Zenon
    <3> QED BY <3>1, <3>2, <3>3, Zenon
  <2> QED BY <1>6, <2>1, <2>2, Zenon DEF Pieced
<1> QED BY <1>1, <1>5, <1>7, <1>8, Zenon DEF Boot

LEMMA BootDisciplined ==
  ASSUME NEW p, NEW c, Boot(p, c), Ends(c)
  PROVE  Disciplined(p, c)
  BY Zenon DEF Boot, Disciplined

LEMMA QuietDisciplined ==
  ASSUME NEW p, NEW c, Body(p, c), Quiet(c), Ends(c)
  PROVE  Disciplined(p, c)
  BY Zenon DEF Body, Guarded, Quiet, Protected, Disciplined

-----------------------------------------------------------------------------
(* The pieces of the kernel's code *)
LEMMA Pair ==
  ASSUME NEW x \in Instructions, NEW y \in Instructions
  PROVE  Extended(<<x>> \o <<y>>, <<x>>, y) /\ Len(<<x>>) = 1 /\ <<x>>[1] = x /\ <<x>> \in Code
<1>1. PICK b : b = <<x>> BY Zenon
<1>2. b \in Code /\ Len(b) = 1 /\ b[1] = x
  BY <1>1, One, Zenon
<1>3. Extended(b \o <<y>>, b, y)
  BY <1>2, Add, Zenon
<1> QED BY <1>1, <1>2, <1>3, Zenon

LEMMA LockedBody ==
  ASSUME NEW p, NEW l \in Locks, NEW c, c = Locked(l)
  PROVE  Ordinary(p, c) /\ Quiet(c) /\ (l = "ALLOCATOR" => Body(p, c))
<1>0. l \in Locks /\ l \in Arguments
  BY Zenon DEF Arguments
<1>1. PICK y : y = <<"lock", l>> BY Zenon
<1>2. PICK z : z = <<"unlock", l>> BY Zenon
<1>3. "lock" \in Operations /\ "unlock" \in Operations
  BY Zenon DEF Operations
<1>4. /\ y \in Instructions /\ y[1] = "lock" /\ y[2] = l
      /\ z \in Instructions /\ z[1] = "unlock" /\ z[2] = l
  BY <1>0, <1>1, <1>2, <1>3, Instruction, Zenon
<1>5. PICK b : b = <<y>> BY Zenon
<1>6. c = b \o <<z>>
  BY <1>1, <1>2, <1>5, Zenon DEF Locked, Lock, Unlock
<1>7. Extended(c, b, z) /\ Len(b) = 1 /\ b[1] = y
  BY <1>4, <1>5, <1>6, Pair, Zenon
<1>8. c \in Code /\ Len(c) = 2 /\ c[1] = y /\ c[2] = z
  BY <1>7 DEF Extended
<1>9. /\ DOMAIN c = 1 .. 2 /\ 1 \in DOMAIN c /\ 2 \in DOMAIN c
      /\ \A i \in DOMAIN c : c[i] \in Instructions
      /\ \A i \in DOMAIN c : i = 1 \/ i = 2
  BY <1>8, CodeDomain
<1>10. \A i \in DOMAIN c : c[i][1] \in {"lock", "unlock"}
  BY <1>4, <1>8, <1>9, Zenon
<1>11. \A i \in DOMAIN c : c[i] \in OrdinaryInstructions(p)
  BY <1>9, <1>10, Zenon DEF OrdinaryInstructions
<1>12. c \in Seq(OrdinaryInstructions(p))
  BY <1>8, <1>11, Retyped, Zenon
<1>13. Gives(c, 2, l)
  BY <1>2, <1>8, <1>9, Zenon DEF Gives
<1>14. ASSUME NEW i \in DOMAIN c
       PROVE  /\ c[i][1] = "lock" => c[i][2] \in Locks /\ Gives(c, i + 1, c[i][2])
              /\ c[i][1] = "exit_qemu" => c[i][2] # "reset"
  <2>1. c[i][1] = "lock" => i = 1 /\ c[i][2] = l
    BY <1>4, <1>8, <1>9, Zenon
  <2>2. 1 + 1 = 2
    OBVIOUS
  <2> QED BY <1>0, <1>10, <1>13, <2>1, <2>2, Zenon
<1>15. Paired(c)
  BY <1>8, <1>14, Zenon DEF Paired
<1>16. Quiet(c) /\ ~Has(c, "initialize")
  BY <1>10, Zenon DEF Quiet, Has, Enabling, Faults
<1>17. Ordinary(p, c)
  BY <1>12, <1>15, <1>16, Zenon DEF Ordinary, Quiet
<1>18. l = "ALLOCATOR" => Guarded(c)
  <2>1. \A i \in DOMAIN c : c[i][1] = "lock" => c[i][2] = l
    BY <1>4, <1>8, <1>9, Zenon
  <2> QED BY <2>1, Zenon DEF Guarded
<1> QED BY <1>16, <1>17, <1>18, Zenon DEF Body

LEMMA NotifyHandler ==
  ASSUME NEW c, c = notify_end_of_interrupt
  PROVE  /\ HandlerCode(c) /\ Has(c, "eoi") /\ \A i \in DOMAIN c : c[i][1] # "iretq"
<1>0. "PICS" \in Locks /\ "PICS" \in Arguments /\ "" \in Arguments /\ "PICS" # "ALLOCATOR"
  BY Zenon DEF Arguments, Locks
<1>1. PICK x : x = <<"lock", "PICS">> BY Zenon
<1>2. PICK y : y = <<"eoi", "">> BY Zenon
<1>3. PICK z : z = <<"unlock", "PICS">> BY Zenon
<1>4. "lock" \in Operations /\ "eoi" \in Operations /\ "unlock" \in Operations
  BY Zenon DEF Operations
<1>5. /\ x \in Instructions /\ x[1] = "lock" /\ x[2] = "PICS"
      /\ y \in Instructions /\ y[1] = "eoi" /\ y[2] = ""
      /\ z \in Instructions /\ z[1] = "unlock" /\ z[2] = "PICS"
  BY <1>0, <1>1, <1>2, <1>3, <1>4, Instruction, Zenon
<1>6. PICK b : b = <<x>> BY Zenon
<1>7. PICK d : d = b \o <<y>> BY Zenon
<1>8. c = d \o <<z>>
  BY <1>1, <1>2, <1>3, <1>6, <1>7, Zenon DEF notify_end_of_interrupt, Lock, Do, Unlock
<1>9. Extended(d, b, y) /\ Len(b) = 1 /\ b[1] = x
  BY <1>5, <1>6, <1>7, Pair, Zenon
<1>10. d \in Code /\ Len(d) = 2 /\ d[1] = x /\ d[2] = y
  BY <1>9 DEF Extended
<1>11. Extended(c, d, z)
  BY <1>5, <1>8, <1>10, Add, Zenon
<1>12. c \in Code /\ Len(c) = 3 /\ c[1] = x /\ c[2] = y /\ c[3] = z
  BY <1>10, <1>11 DEF Extended
<1>13. /\ 1 \in DOMAIN c /\ 2 \in DOMAIN c /\ 3 \in DOMAIN c
       /\ \A i \in DOMAIN c : c[i] \in Instructions
       /\ \A i \in DOMAIN c : i = 1 \/ i = 2 \/ i = 3
  BY <1>12, CodeDomain
<1>14. \A i \in DOMAIN c : /\ c[i][1] \in {"lock", "eoi", "unlock"}
                           /\ c[i][1] = "lock" => i = 1 /\ c[i][2] = "PICS"
  BY <1>5, <1>12, <1>13, Zenon
<1>15. \A i \in DOMAIN c : c[i] \in HandlerInstructions
  BY <1>0, <1>13, <1>14, Zenon DEF HandlerInstructions, Enabling, Faults, BootSteps
<1>16. c \in Seq(HandlerInstructions)
  BY <1>12, <1>15, Retyped, Zenon
<1>17. Gives(c, 2, "PICS")
  <2>1. 2 + 1 = 3
    OBVIOUS
  <2> QED BY <1>3, <1>5, <1>12, <1>13, <2>1, Zenon DEF Gives
<1>18. ASSUME NEW i \in DOMAIN c
       PROVE  /\ c[i][1] = "lock" => c[i][2] \in Locks /\ Gives(c, i + 1, c[i][2])
              /\ c[i][1] = "exit_qemu" => c[i][2] # "reset"
  <2>1. 1 + 1 = 2
    OBVIOUS
  <2> QED BY <1>0, <1>14, <1>17, <2>1, Zenon
<1>19. Paired(c)
  BY <1>12, <1>18, Zenon DEF Paired
<1>20. Has(c, "eoi")
  BY <1>5, <1>12, <1>13, Zenon DEF Has
<1> QED BY <1>14, <1>16, <1>19, <1>20, Zenon DEF HandlerCode

IsInit(c) ==
  /\ c \in Code /\ Len(c) = 6
  /\ c[1][1] = "load_tss" /\ c[2][1] = "load_idt" /\ c[2][2] = "IDT"
  /\ c[3][1] = "lock" /\ c[3][2] = "PICS" /\ c[4][1] = "initialize"
  /\ c[5] = <<"unlock", "PICS">> /\ c[5][1] = "unlock" /\ c[6][1] = "enable"

LEMMA InitCode == ASSUME NEW c, c = init PROVE IsInit(c)
<1>0. "PICS" \in Arguments /\ "" \in Arguments /\ "IDT" \in Arguments
  BY Zenon DEF Arguments, Locks
<1>1. PICK x1 : x1 = <<"load_tss", "">> BY Zenon
<1>2. PICK x2 : x2 = <<"load_idt", "IDT">> BY Zenon
<1>3. PICK x3 : x3 = <<"lock", "PICS">> BY Zenon
<1>4. PICK x4 : x4 = <<"initialize", "">> BY Zenon
<1>5. PICK x5 : x5 = <<"unlock", "PICS">> BY Zenon
<1>6. PICK x6 : x6 = <<"enable", "">> BY Zenon
<1>7. /\ "load_tss" \in Operations /\ "load_idt" \in Operations /\ "lock" \in Operations
      /\ "initialize" \in Operations /\ "unlock" \in Operations /\ "enable" \in Operations
  BY Zenon DEF Operations
<1>8. /\ x1 \in Instructions /\ x1[1] = "load_tss"
      /\ x2 \in Instructions /\ x2[1] = "load_idt" /\ x2[2] = "IDT"
      /\ x3 \in Instructions /\ x3[1] = "lock" /\ x3[2] = "PICS"
  <2>1. x1 \in Instructions /\ x1[1] = "load_tss"
    BY <1>0, <1>1, <1>7, Instruction, Zenon
  <2>2. x2 \in Instructions /\ x2[1] = "load_idt" /\ x2[2] = "IDT"
    BY <1>0, <1>2, <1>7, Instruction, Zenon
  <2>3. x3 \in Instructions /\ x3[1] = "lock" /\ x3[2] = "PICS"
    BY <1>0, <1>3, <1>7, Instruction, Zenon
  <2> QED BY <2>1, <2>2, <2>3, Zenon
<1>9. /\ x4 \in Instructions /\ x4[1] = "initialize"
      /\ x5 \in Instructions /\ x5[1] = "unlock"
      /\ x6 \in Instructions /\ x6[1] = "enable"
  <2>1. x4 \in Instructions /\ x4[1] = "initialize"
    BY <1>0, <1>4, <1>7, Instruction, Zenon
  <2>2. x5 \in Instructions /\ x5[1] = "unlock"
    BY <1>0, <1>5, <1>7, Instruction, Zenon
  <2>3. x6 \in Instructions /\ x6[1] = "enable"
    BY <1>0, <1>6, <1>7, Instruction, Zenon
  <2> QED BY <2>1, <2>2, <2>3, Zenon
<1>10. PICK b1 : b1 = <<x1>> BY Zenon
<1>11. PICK b2 : b2 = b1 \o <<x2>> BY Zenon
<1>12. PICK b3 : b3 = b2 \o <<x3>> BY Zenon
<1>13. PICK b4 : b4 = b3 \o <<x4>> BY Zenon
<1>14. PICK b5 : b5 = b4 \o <<x5>> BY Zenon
<1>15. c = b5 \o <<x6>>
  BY <1>1, <1>2, <1>3, <1>4, <1>5, <1>6, <1>10, <1>11, <1>12, <1>13, <1>14, Zenon
     DEF init, gdt_init, Lock, Do, Unlock
<1>16. Extended(b2, b1, x2) /\ Len(b1) = 1 /\ b1[1] = x1
  BY <1>8, <1>10, <1>11, Pair, Zenon
<1>17. b2 \in Code /\ Len(b2) = 2 /\ b2[1] = x1 /\ b2[2] = x2
  BY <1>16 DEF Extended
<1>18. Extended(b3, b2, x3)
  BY <1>8, <1>12, <1>17, Add, Zenon
<1>19. b3 \in Code /\ Len(b3) = 3 /\ b3[1] = x1 /\ b3[2] = x2 /\ b3[3] = x3
  BY <1>17, <1>18 DEF Extended
<1>20. Extended(b4, b3, x4)
  BY <1>9, <1>13, <1>19, Add, Zenon
<1>21. b4 \in Code /\ Len(b4) = 4 /\ b4[1] = x1 /\ b4[2] = x2 /\ b4[3] = x3 /\ b4[4] = x4
  BY <1>19, <1>20 DEF Extended
<1>22. Extended(b5, b4, x5)
  BY <1>9, <1>14, <1>21, Add, Zenon
<1>23. /\ b5 \in Code /\ Len(b5) = 5 /\ b5[1] = x1 /\ b5[2] = x2 /\ b5[3] = x3 /\ b5[4] = x4
       /\ b5[5] = x5
  BY <1>21, <1>22 DEF Extended
<1>24. Extended(c, b5, x6)
  BY <1>9, <1>15, <1>23, Add, Zenon
<1>25. /\ c \in Code /\ Len(c) = 6 /\ c[1] = x1 /\ c[2] = x2 /\ c[3] = x3 /\ c[4] = x4
       /\ c[5] = x5 /\ c[6] = x6
  BY <1>23, <1>24 DEF Extended
<1> QED BY <1>5, <1>8, <1>9, <1>25, Zenon DEF IsInit

LEMMA SingleQuiet ==
  ASSUME NEW x \in Instructions, x[1] \notin Enabling \cup Faults \cup {"initialize"}
  PROVE  Quiet(<<x>>)
<1>1. PICK c : c = <<x>> BY Zenon
<1>2. DOMAIN c = 1 .. 1 /\ c[1] = x
  BY <1>1, One, Zenon
<1>3. \A i \in DOMAIN c : i = 1
  BY <1>2
<1> QED BY <1>1, <1>2, <1>3, Zenon DEF Quiet

LEMMA InitBoot ==
  ASSUME NEW p, NEW c, IsInit(c)
  PROVE  Boot(p, c)
<1>1. /\ c \in Code /\ Len(c) = 6
      /\ c[1][1] = "load_tss" /\ c[2][1] = "load_idt" /\ c[2][2] = "IDT"
      /\ c[3][1] = "lock" /\ c[3][2] = "PICS" /\ c[4][1] = "initialize"
      /\ c[5] = <<"unlock", "PICS">> /\ c[5][1] = "unlock" /\ c[6][1] = "enable"
  BY Zenon DEF IsInit
<1>2. DOMAIN c = 1 .. 6 /\ \A i \in DOMAIN c : c[i] \in Instructions
  BY <1>1, CodeDomain, Zenon
<1>3. /\ 1 \in DOMAIN c /\ 2 \in DOMAIN c /\ 3 \in DOMAIN c
      /\ 4 \in DOMAIN c /\ 5 \in DOMAIN c /\ 6 \in DOMAIN c
      /\ \A i \in DOMAIN c : i = 1 \/ i = 2 \/ i = 3 \/ i = 4 \/ i = 5 \/ i = 6
  BY <1>2
<1>4. \A i \in DOMAIN c :
        /\ c[i][1] \in {"load_tss", "load_idt", "lock", "initialize", "unlock", "enable"}
        /\ c[i][1] = "load_idt" => i = 2
        /\ c[i][1] = "lock" => i = 3
        /\ c[i][1] = "enable" => i = 6
  BY <1>1, <1>3, Zenon
<1>5. \A i \in DOMAIN c : c[i] \in OrdinaryInstructions(p)
  BY <1>1, <1>2, <1>4, Zenon DEF OrdinaryInstructions
<1>6. c \in Seq(OrdinaryInstructions(p))
  BY <1>1, <1>5, Retyped, Zenon
<1>7. Gives(c, 4, "PICS")
  <2>1. 4 + 1 = 5
    OBVIOUS
  <2> QED BY <1>1, <1>3, <2>1, Zenon DEF Gives
<1>8. ASSUME NEW i \in DOMAIN c
      PROVE  /\ c[i][1] = "lock" => c[i][2] \in Locks /\ Gives(c, i + 1, c[i][2])
             /\ c[i][1] = "exit_qemu" => c[i][2] # "reset"
  <2>1. 3 + 1 = 4
    OBVIOUS
  <2>2. "PICS" \in Locks
    BY Zenon DEF Locks
  <2>3. c[i][1] # "exit_qemu" /\ (c[i][1] = "lock" => i = 3 /\ c[i][2] = "PICS")
    BY <1>1, <1>4, Zenon
  <2> QED BY <1>7, <2>1, <2>2, <2>3, Zenon
<1>9. Paired(c)
  BY <1>1, <1>8, Zenon DEF Paired
<1>10. \A j \in DOMAIN c : j > 6 => FALSE
  BY <1>2
<1>11. ~Later(c, 6, "initialize")
  BY <1>10, Zenon DEF Later
<1>12. \A i \in DOMAIN c : c[i][1] \in Enabling \cup Faults => i = 6
  BY <1>4, Zenon DEF Enabling, Faults
<1>13. Ordinary(p, c)
  BY <1>6, <1>9, <1>11, <1>12, Zenon DEF Ordinary
<1>14. /\ 1 < 6 /\ 2 < 6 /\ 4 < 6 /\ 4 > 3
  OBVIOUS
<1>15. /\ Has(c, "load_tss") /\ Has(c, "load_idt") /\ Has(c, "initialize")
       /\ Earlier(c, 6, "load_tss") /\ Earlier(c, 6, "load_idt") /\ Earlier(c, 6, "initialize")
       /\ Later(c, 3, "initialize")
  BY <1>1, <1>3, <1>14, Zenon DEF Has, Earlier, Later
<1>16. \A op \in BootSteps : Has(c, op) /\ Earlier(c, 6, op)
  BY <1>15, Zenon DEF BootSteps
<1>17. \A i \in DOMAIN c : Protected(c, i)
  BY <1>4, <1>15, Zenon DEF Protected
<1> QED BY <1>12, <1>13, <1>16, <1>17, Zenon DEF Boot

(* Single instructions *)
LEMMA DoBody ==
  ASSUME NEW p, NEW op,
         op \in {"without_interrupts", "restore", "enable", "disable", "enable_and_hlt", "hlt",
                 "executor_run", "allocated", "panic", "hlt_loop", "read_port"}
  PROVE  /\ Body(p, Do(op))
         /\ op \in {"panic", "hlt_loop", "executor_run"} => Ends(Do(op))
         /\ op \notin Enabling => Quiet(Do(op))
         /\ op \notin Enabling \cup {"allocated"} => HandlerCode(Do(op))
<1>1. op \in Operations /\ "" \in Arguments
  BY Zenon DEF Operations, Arguments
<1>2. PICK x : x = <<op, "">> BY Zenon
<1>3. x \in Instructions /\ x[1] = op
  BY <1>1, <1>2, Instruction, Zenon
<1>4. op \notin {"lock", "exit_qemu", "initialize", "eoi", "iretq", "add_scancode", "load_idt",
                 "load_tss", "int3", "page_fault", "overflow"}
  BY Zenon
<1>5. x \in OrdinaryInstructions(p)
  BY <1>3, <1>4, Zenon DEF OrdinaryInstructions
<1>6. op \notin Enabling \cup {"allocated"} => x \in HandlerInstructions
  BY <1>3, <1>4, Zenon DEF HandlerInstructions, Faults, BootSteps
<1>7. Do(op) = <<x>>
  BY <1>2, Zenon DEF Do
<1>8. /\ x \in OrdinaryInstructions(p) /\ x[1] # "initialize" => Body(p, <<x>>)
      /\ x \in HandlerInstructions => HandlerCode(<<x>>)
      /\ x[1] \in {"hlt_loop", "executor_run", "panic", "iretq"} => Ends(<<x>>)
  BY <1>3, <1>4, Single, Zenon
<1>9. op \notin Enabling => Quiet(<<x>>)
  BY <1>3, <1>4, SingleQuiet, Zenon DEF Faults
<1> QED BY <1>3, <1>4, <1>5, <1>6, <1>7, <1>8, <1>9, Zenon

LEMMA HandlerQuiet == ASSUME NEW c, HandlerCode(c) PROVE Quiet(c)
<1>1. c \in Seq(HandlerInstructions)
  BY Zenon DEF HandlerCode
<1>2. \A i \in DOMAIN c : c[i] \in HandlerInstructions
  BY <1>1
<1> QED BY <1>2, Zenon DEF Quiet, HandlerInstructions, BootSteps

LEMMA ExitBody ==
  ASSUME NEW p, NEW a \in {"Success", "Failure"}
  PROVE  Body(p, exit_qemu(a)) /\ Quiet(exit_qemu(a)) /\ HandlerCode(exit_qemu(a))
<1>1. "exit_qemu" \in Operations /\ a \in Arguments /\ a # "reset"
  BY Zenon DEF Operations, Arguments
<1>2. PICK x : x = <<"exit_qemu", a>> BY Zenon
<1>3. x \in Instructions /\ x[1] = "exit_qemu" /\ x[2] = a
  BY <1>1, <1>2, Instruction, Zenon
<1>4. x \in OrdinaryInstructions(p) /\ x \in HandlerInstructions
  BY <1>3, Zenon DEF OrdinaryInstructions, HandlerInstructions, Enabling, Faults, BootSteps
<1>5. exit_qemu(a) = <<x>>
  BY <1>2, Zenon DEF exit_qemu
<1>6. Body(p, <<x>>) /\ HandlerCode(<<x>>)
  BY <1>1, <1>3, <1>4, Single, Zenon
<1>7. Quiet(<<x>>)
  BY <1>3, SingleQuiet, Zenon DEF Enabling, Faults
<1> QED BY <1>5, <1>6, <1>7, Zenon

LEMMA FaultBody ==
  ASSUME NEW p, NEW op \in Faults,
         IF op = "overflow" THEN p \in {"overflow", "tests/stack_overflow"}
                            ELSE p # "tests/stack_overflow"
  PROVE  Body(p, Do(op))
<1>1. op \in {"int3", "page_fault", "overflow"} /\ op \in Operations /\ "" \in Arguments
  BY Zenon DEF Operations, Arguments, Faults
<1>2. PICK x : x = <<op, "">> BY Zenon
<1>3. x \in Instructions /\ x[1] = op
  BY <1>1, <1>2, Instruction, Zenon
<1>4. op \notin {"lock", "exit_qemu", "initialize", "eoi", "iretq", "add_scancode", "load_idt"}
  BY <1>1, Zenon
<1>5. x \in OrdinaryInstructions(p)
  BY <1>1, <1>3, <1>4, Zenon DEF OrdinaryInstructions
<1>6. Body(p, <<x>>)
  BY <1>3, <1>4, <1>5, Single, Zenon
<1> QED BY <1>2, <1>6, Zenon DEF Do

LEMMA TestTableBody == Body("tests/stack_overflow", << <<"load_idt", "TEST_IDT">> >>)
<1>1. "load_idt" \in Operations /\ "TEST_IDT" \in Arguments
  BY Zenon DEF Operations, Arguments
<1>2. PICK x : x = <<"load_idt", "TEST_IDT">> BY Zenon
<1>3. x \in Instructions /\ x[1] = "load_idt" /\ x[2] = "TEST_IDT"
  BY <1>1, <1>2, Instruction, Zenon
<1>4. x \in OrdinaryInstructions("tests/stack_overflow")
  BY <1>3, Zenon DEF OrdinaryInstructions
<1>5. Body("tests/stack_overflow", <<x>>)
  BY <1>3, <1>4, Single, Zenon
<1> QED BY <1>2, <1>5, Zenon

LEMMA HandlerSteps ==
  /\ HandlerCode(Do("iretq")) /\ Ends(Do("iretq"))
  /\ HandlerCode(Do("add_scancode"))
  /\ \A i \in DOMAIN Do("add_scancode") : Do("add_scancode")[i][1] # "iretq"
<1>1. "iretq" \in Operations /\ "add_scancode" \in Operations /\ "" \in Arguments
  BY Zenon DEF Operations, Arguments
<1>2. PICK x : x = <<"iretq", "">> BY Zenon
<1>3. PICK y : y = <<"add_scancode", "">> BY Zenon
<1>4. x \in Instructions /\ x[1] = "iretq"
  BY <1>1, <1>2, Instruction, Zenon
<1>5. y \in Instructions /\ y[1] = "add_scancode"
  BY <1>1, <1>3, Instruction, Zenon
<1>6. x \in HandlerInstructions /\ y \in HandlerInstructions
  BY <1>4, <1>5, Zenon DEF HandlerInstructions, Enabling, Faults, BootSteps
<1>7. HandlerCode(<<x>>) /\ Ends(<<x>>)
  BY <1>4, <1>6, Single, Zenon
<1>8. HandlerCode(<<y>>)
  BY <1>5, <1>6, Single, Zenon
<1>9. Do("iretq") = <<x>> /\ Do("add_scancode") = <<y>>
  BY <1>2, <1>3, Zenon DEF Do
<1>10. DOMAIN <<y>> = 1 .. 1 /\ <<y>>[1] = y
  BY <1>5, One, Zenon
<1>11. \A i \in 1 .. 1 : i = 1
  OBVIOUS
<1> QED BY <1>5, <1>7, <1>8, <1>9, <1>10, <1>11, Zenon

(* The print macros *)
LEMMA Prints ==
  ASSUME NEW p
  PROVE  /\ Body(p, print("WRITER")) /\ HandlerCode(print("WRITER"))
         /\ Body(p, print("bin WRITER")) /\ HandlerCode(print("bin WRITER"))
         /\ Body(p, serial_print) /\ HandlerCode(serial_print)
         /\ Quiet(print("WRITER")) /\ Quiet(print("bin WRITER")) /\ Quiet(serial_print)
<1>1. /\ "WRITER" \in Locks \ {"ALLOCATOR"} /\ "bin WRITER" \in Locks \ {"ALLOCATOR"}
      /\ "SERIAL1" \in Locks \ {"ALLOCATOR"}
  BY Zenon DEF Locks
<1>2. \A l \in Locks \ {"ALLOCATOR"} :
        LET c == Do("without_interrupts") \o Locked(l) \o Do("restore")
        IN Body(p, c) /\ HandlerCode(c)
  BY PrintBody, Zenon
<1>3. \A c : HandlerCode(c) => Quiet(c)
  BY HandlerQuiet, Zenon
<1> QED BY <1>1, <1>2, <1>3, Zenon DEF print, serial_print

(* Code that may run in a handler and below it *)
Plain(p, c) == Body(p, c) /\ HandlerCode(c)

LEMMA CatPlain ==
  ASSUME NEW p, NEW c, NEW d, Plain(p, c), Plain(p, d)
  PROVE  Plain(p, c \o d)
  BY CatBody, CatHandler, Zenon DEF Plain

LEMMA BodyCode == ASSUME NEW p, NEW c, Body(p, c) PROVE c \in Code /\ Ordinary(p, c)
  BY Zenon DEF Body, Ordinary, Paired

LEMMA CatPlainEnds ==
  ASSUME NEW p, NEW c, NEW d, Plain(p, c), Plain(p, d), Ends(d)
  PROVE  Plain(p, c \o d) /\ Ends(c \o d)
<1>1. c \in Code /\ d \in Code
  BY BodyCode, Zenon DEF Plain
<1> QED BY <1>1, CatPlain, CatEnds, Zenon

LEMMA PlainPieces ==
  ASSUME NEW p
  PROVE  /\ Plain(p, print("WRITER")) /\ Plain(p, print("bin WRITER")) /\ Plain(p, serial_print)
         /\ Plain(p, hlt_loop) /\ Ends(hlt_loop)
         /\ Plain(p, Do("panic")) /\ Ends(Do("panic"))
         /\ Plain(p, exit_qemu("Success")) /\ Plain(p, exit_qemu("Failure"))
<1>1. Plain(p, print("WRITER")) /\ Plain(p, print("bin WRITER")) /\ Plain(p, serial_print)
  BY Prints, Zenon DEF Plain
<1>2. Plain(p, exit_qemu("Success")) /\ Plain(p, exit_qemu("Failure"))
  BY ExitBody, Zenon DEF Plain
<1>3. \A op \in {"panic", "hlt_loop"} : Plain(p, Do(op)) /\ Ends(Do(op))
  <2>1. ASSUME NEW op \in {"panic", "hlt_loop"}
        PROVE  /\ op \notin Enabling \cup {"allocated"} /\ op \in {"panic", "hlt_loop", "executor_run"}
               /\ op \in {"without_interrupts", "restore", "enable", "disable", "enable_and_hlt", "hlt",
                          "executor_run", "allocated", "panic", "hlt_loop", "read_port"}
    BY Zenon DEF Enabling
  <2> QED BY <2>1, DoBody, Zenon DEF Plain
<1> QED BY <1>1, <1>2, <1>3, Zenon DEF hlt_loop

LEMMA PanicPlain ==
  ASSUME NEW p
  PROVE  Plain(p, panic(p)) /\ Ends(panic(p))
<1>1. CASE p \in {"kernel_main", "no_heap", "int3", "page_fault", "overflow"}
  <2>1. panic(p) = print("bin WRITER") \o hlt_loop
    BY <1>1, Zenon DEF panic
  <2> QED BY <2>1, PlainPieces, CatPlainEnds, Zenon
<1>2. CASE p = "tests/should_panic"
  <2>1. panic(p) = (serial_print \o exit_qemu("Success")) \o hlt_loop
    BY <1>2 DEF panic
  <2>2. Plain(p, serial_print \o exit_qemu("Success"))
    BY PlainPieces, CatPlain, Zenon
  <2> QED BY <2>1, <2>2, PlainPieces, CatPlainEnds, Zenon
<1>3. CASE /\ p \notin {"kernel_main", "no_heap", "int3", "page_fault", "overflow"}
           /\ p # "tests/should_panic"
  <2>1. panic(p) = ((serial_print \o serial_print) \o exit_qemu("Failure")) \o hlt_loop
    BY <1>3 DEF panic, test_panic_handler
  <2>2. Plain(p, serial_print \o serial_print)
    BY PlainPieces, CatPlain, Zenon
  <2>3. Plain(p, (serial_print \o serial_print) \o exit_qemu("Failure"))
    BY <2>2, PlainPieces, CatPlain, Zenon
  <2> QED BY <2>1, <2>3, PlainPieces, CatPlainEnds, Zenon
<1> QED BY <1>1, <1>2, <1>3, Zenon

-----------------------------------------------------------------------------
(* The handlers *)
NoReturn(c) == \A i \in DOMAIN c : c[i][1] # "iretq"

LEMMA CatEndsInterrupt ==
  ASSUME NEW c \in Code, NEW d \in Code, NoReturn(c), Has(c, "eoi") \/ EndsInterrupt(d)
  PROVE  EndsInterrupt(c \o d)
<1>1. PICK s : s = c \o d BY Zenon
<1>2. PICK n : n = Len(c) BY Zenon
<1>3. Pieced(s, c, d, n)
  BY <1>1, <1>2, CatCases, Zenon
<1>4. ASSUME NEW i \in DOMAIN s, s[i][1] = "iretq" PROVE Earlier(s, i, "eoi")
  <2>1. PICK k \in DOMAIN d : i = n + k /\ s[i] = d[k]
    BY <1>3, <1>4, Zenon DEF Pieced, NoReturn
  <2>2. Has(c, "eoi") \/ Earlier(d, k, "eoi") => Earlier(s, n + k, "eoi")
    BY <1>1, <1>2, CatOrder, Zenon
  <2>3. Has(c, "eoi") \/ Earlier(d, k, "eoi")
    BY <1>4, <2>1, Zenon DEF EndsInterrupt
  <2> QED BY <2>1, <2>2, <2>3, Zenon
<1> QED BY <1>1, <1>4, Zenon DEF EndsInterrupt

LEMMA CatNoReturn ==
  ASSUME NEW c \in Code, NEW d \in Code, NoReturn(c), NoReturn(d)
  PROVE  NoReturn(c \o d) /\ (Has(d, "eoi") => Has(c \o d, "eoi"))
<1>1. PICK s : s = c \o d BY Zenon
<1>2. PICK n : n = Len(c) BY Zenon
<1>3. Pieced(s, c, d, n)
  BY <1>1, <1>2, CatCases, Zenon
<1>4. ASSUME NEW i \in DOMAIN s PROVE s[i][1] # "iretq"
  <2>1. CASE i \in DOMAIN c /\ s[i] = c[i]
    BY <2>1, Zenon DEF NoReturn
  <2>2. CASE \E k \in DOMAIN d : i = n + k /\ s[i] = d[k]
    BY <2>2, Zenon DEF NoReturn
  <2> QED BY <1>3, <2>1, <2>2, Zenon DEF Pieced
<1>5. ASSUME Has(d, "eoi") PROVE Has(s, "eoi")
  <2>1. PICK k \in DOMAIN d : d[k][1] = "eoi"
    BY <1>5, Zenon DEF Has
  <2>2. n + k \in DOMAIN s /\ s[n + k] = d[k]
    BY <1>3, Zenon DEF Pieced
  <2> QED BY <2>1, <2>2, Zenon DEF Has
<1> QED BY <1>1, <1>4, <1>5, Zenon DEF NoReturn

LEMMA PlainNoReturn ==
  ASSUME NEW p, NEW c, Body(p, c)
  PROVE  NoReturn(c) /\ EndsInterrupt(c)
<1>1. c \in Seq(OrdinaryInstructions(p))
  BY Zenon DEF Body, Ordinary
<1>2. \A i \in DOMAIN c : c[i] \in OrdinaryInstructions(p)
  BY <1>1
<1> QED BY <1>2, Zenon DEF NoReturn, EndsInterrupt, OrdinaryInstructions

LEMMA HandlerIsCode == ASSUME NEW c, HandlerCode(c) PROVE c \in Code
  BY Zenon DEF HandlerCode, Paired

(* What is asked of a handler: of one that may serve a line, that it ends  *)
(* the interrupt.                                                          *)
GoodHandler(c) == HandlerCode(c) /\ Ends(c)

LEMMA BreakpointHandler == GoodHandler(breakpoint_handler)
<1>1. HandlerCode(print("WRITER")) /\ HandlerCode(Do("iretq")) /\ Ends(Do("iretq"))
  BY Prints, HandlerSteps, Zenon
<1>2. print("WRITER") \in Code /\ Do("iretq") \in Code
  BY <1>1, HandlerIsCode, Zenon
<1> QED BY <1>1, <1>2, CatHandler, CatEnds, Zenon DEF GoodHandler, breakpoint_handler

LEMMA TimerHandler ==
  GoodHandler(timer_interrupt_handler) /\ EndsInterrupt(timer_interrupt_handler)
<1>1. PICK c : c = print("WRITER") BY Zenon
<1>2. PICK d : d = notify_end_of_interrupt BY Zenon
<1>3. PICK e : e = Do("iretq") BY Zenon
<1>4. timer_interrupt_handler = (c \o d) \o e
  BY <1>1, <1>2, <1>3, Zenon DEF timer_interrupt_handler
<1>5. /\ HandlerCode(c) /\ HandlerCode(d) /\ HandlerCode(e) /\ Ends(e)
      /\ NoReturn(d) /\ Has(d, "eoi")
  BY <1>1, <1>2, <1>3, Prints, NotifyHandler, HandlerSteps, Zenon DEF NoReturn
<1>6. NoReturn(c)
  BY <1>1, Prints, PlainNoReturn, Zenon
<1>7. c \in Code /\ d \in Code /\ e \in Code
  BY <1>5, HandlerIsCode, Zenon
<1>8. HandlerCode(c \o d) /\ NoReturn(c \o d) /\ Has(c \o d, "eoi")
  BY <1>5, <1>6, <1>7, CatHandler, CatNoReturn, Zenon
<1>9. c \o d \in Code
  BY <1>8, HandlerIsCode, Zenon
<1>10. HandlerCode((c \o d) \o e) /\ Ends((c \o d) \o e) /\ EndsInterrupt((c \o d) \o e)
  BY <1>5, <1>7, <1>8, <1>9, CatHandler, CatEnds, CatEndsInterrupt, Zenon
<1> QED BY <1>4, <1>10, Zenon DEF GoodHandler

LEMMA KeyboardHandler ==
  GoodHandler(keyboard_interrupt_handler) /\ EndsInterrupt(keyboard_interrupt_handler)
<1>1. PICK b : b = Do("read_port") \o Do("add_scancode") BY Zenon
<1>2. PICK d : d = notify_end_of_interrupt BY Zenon
<1>3. PICK e : e = Do("iretq") BY Zenon
<1>4. keyboard_interrupt_handler = (b \o d) \o e
  BY <1>1, <1>2, <1>3, Zenon DEF keyboard_interrupt_handler
<1>5. /\ HandlerCode(d) /\ HandlerCode(e) /\ Ends(e) /\ NoReturn(d) /\ Has(d, "eoi")
  BY <1>2, <1>3, NotifyHandler, HandlerSteps, Zenon DEF NoReturn
<1>6. HandlerCode(b) /\ NoReturn(b)
  <2>1. HandlerCode(Do("read_port")) /\ NoReturn(Do("read_port"))
    <3>1. Body("", Do("read_port")) /\ HandlerCode(Do("read_port"))
      BY DoBody, Zenon DEF Enabling
    <3> QED BY <3>1, PlainNoReturn, Zenon
  <2>2. HandlerCode(Do("add_scancode")) /\ NoReturn(Do("add_scancode"))
    BY HandlerSteps, Zenon DEF NoReturn
  <2>3. Do("read_port") \in Code /\ Do("add_scancode") \in Code
    BY <2>1, <2>2, HandlerIsCode, Zenon
  <2> QED BY <1>1, <2>1, <2>2, <2>3, CatHandler, CatNoReturn, Zenon
<1>7. b \in Code /\ d \in Code /\ e \in Code
  BY <1>5, <1>6, HandlerIsCode, Zenon
<1>8. HandlerCode(b \o d) /\ NoReturn(b \o d) /\ Has(b \o d, "eoi")
  BY <1>5, <1>6, <1>7, CatHandler, CatNoReturn, Zenon
<1>9. b \o d \in Code
  BY <1>8, HandlerIsCode, Zenon
<1>10. HandlerCode((b \o d) \o e) /\ Ends((b \o d) \o e) /\ EndsInterrupt((b \o d) \o e)
  BY <1>5, <1>7, <1>8, <1>9, CatHandler, CatEnds, CatEndsInterrupt, Zenon
<1> QED BY <1>4, <1>10, Zenon DEF GoodHandler

LEMMA PlainHandlers ==
  /\ GoodHandler(page_fault_handler)
  /\ GoodHandler(test_double_fault_handler) /\ EndsInterrupt(test_double_fault_handler)
  /\ GoodHandler(Do("panic")) /\ EndsInterrupt(Do("panic"))
<1>1. PICK p : p = "kernel_main" BY Zenon
<1>2. PICK c : c = print("WRITER") BY Zenon
<1>3. Plain(p, c) /\ Plain(p, hlt_loop) /\ Ends(hlt_loop)
  BY <1>2, PlainPieces, Zenon
<1>4. Plain(p, c \o c)
  BY <1>3, CatPlain, Zenon
<1>5. Plain(p, (c \o c) \o c)
  BY <1>3, <1>4, CatPlain, Zenon
<1>6. Plain(p, ((c \o c) \o c) \o c)
  BY <1>3, <1>5, CatPlain, Zenon
<1>7. /\ Plain(p, (((c \o c) \o c) \o c) \o hlt_loop)
      /\ Ends((((c \o c) \o c) \o c) \o hlt_loop)
  BY <1>3, <1>6, CatPlainEnds, Zenon
<1>8. GoodHandler(page_fault_handler)
  BY <1>2, <1>7, Zenon DEF page_fault_handler, GoodHandler, Plain
<1>9. Plain(p, serial_print \o exit_qemu("Success"))
  BY PlainPieces, CatPlain, Zenon
<1>10. Plain(p, test_double_fault_handler) /\ Ends(test_double_fault_handler)
  BY <1>3, <1>9, CatPlainEnds, Zenon DEF test_double_fault_handler
<1>11. Plain(p, Do("panic")) /\ Ends(Do("panic"))
  BY PlainPieces, Zenon
<1> QED BY <1>8, <1>10, <1>11, PlainNoReturn, Zenon DEF GoodHandler, Plain

LEMMA Handlers ==
  /\ DOMAIN handlers("IDT") = {Breakpoint, DoubleFault, PageFault, 32, 33}
  /\ DOMAIN handlers("TEST_IDT") = {DoubleFault}
  /\ \A table \in {"IDT", "TEST_IDT"} : \A v \in DOMAIN handlers(table) :
       /\ GoodHandler(handlers(table)[v])
       /\ v \in {DoubleFault, 32, 33} => EndsInterrupt(handlers(table)[v])
<1>1. /\ DOMAIN handlers("IDT") = {Breakpoint, DoubleFault, PageFault, 32, 33}
      /\ handlers("IDT")[Breakpoint] = breakpoint_handler
      /\ handlers("IDT")[DoubleFault] = Do("panic")
      /\ handlers("IDT")[PageFault] = page_fault_handler
      /\ handlers("IDT")[32] = timer_interrupt_handler
      /\ handlers("IDT")[33] = keyboard_interrupt_handler
  BY DEF handlers, Breakpoint, DoubleFault, PageFault
<1>2. /\ DOMAIN handlers("TEST_IDT") = {DoubleFault}
      /\ handlers("TEST_IDT")[DoubleFault] = test_double_fault_handler
  BY DEF handlers, DoubleFault
<1>3. Breakpoint \notin {DoubleFault, 32, 33} /\ PageFault \notin {DoubleFault, 32, 33}
  BY DEF Breakpoint, DoubleFault, PageFault
<1>4. ASSUME NEW v \in DOMAIN handlers("IDT")
      PROVE  /\ GoodHandler(handlers("IDT")[v])
             /\ v \in {DoubleFault, 32, 33} => EndsInterrupt(handlers("IDT")[v])
  BY <1>1, <1>3, BreakpointHandler, TimerHandler, KeyboardHandler, PlainHandlers, Zenon
<1>5. ASSUME NEW v \in DOMAIN handlers("TEST_IDT")
      PROVE  /\ GoodHandler(handlers("TEST_IDT")[v])
             /\ v \in {DoubleFault, 32, 33} => EndsInterrupt(handlers("TEST_IDT")[v])
  BY <1>2, PlainHandlers, Zenon
<1> QED BY <1>1, <1>2, <1>4, <1>5, Zenon

-----------------------------------------------------------------------------
(* The entry points *)
LEMMA HeapBody ==
  ASSUME NEW p
  PROVE  Body(p, use_heap) /\ Quiet(use_heap)
<1>1. "ALLOCATOR" \in Locks
  BY Zenon DEF Locks
<1> QED BY <1>1, LockedBody, Zenon DEF use_heap

LEMMA InitHeapBody == ASSUME NEW p, NEW fails PROVE Body(p, init_heap(fails))
<1>1. "ALLOCATOR" \in Locks
  BY Zenon DEF Locks
<1>2. Body(p, Locked("ALLOCATOR")) /\ Body(p, Do("panic"))
  BY <1>1, LockedBody, PlainPieces, Zenon DEF Plain
<1> QED BY <1>2, Zenon DEF init_heap

LEMMA InitBoots == ASSUME NEW p PROVE Boot(p, init)
  BY InitCode, InitBoot, Zenon

(* Code that starts with the boot and ends as it should *)
LEMMA CatBootEnds ==
  ASSUME NEW p, NEW c, NEW d, Boot(p, c), Body(p, d), Ends(d)
  PROVE  Disciplined(p, c \o d)
<1>1. c \in Code /\ d \in Code
  BY Zenon DEF Boot, Body, Ordinary, Paired
<1> QED BY <1>1, AfterBoot, CatEnds, BootDisciplined, Zenon

LEMMA WriteToVga ==
  ASSUME NEW p
  PROVE  Ordinary(p, write_to_vga \o print("bin WRITER")) /\ Quiet(write_to_vga \o print("bin WRITER"))
<1>1. PICK c : c = Locked("bin WRITER") BY Zenon
<1>2. PICK d : d = print("bin WRITER") BY Zenon
<1>3. "bin WRITER" \in Locks
  BY Zenon DEF Locks
<1>4. Ordinary(p, c) /\ Quiet(c)
  BY <1>1, <1>3, LockedBody, Zenon
<1>5. Ordinary(p, d) /\ Quiet(d)
  BY <1>2, Prints, BodyCode, Zenon
<1>6. \A b : Quiet(b) => ~Has(b, "initialize")
  BY Zenon DEF Quiet, Has
<1>7. Ordinary(p, c \o c)
  BY <1>4, <1>6, CatOrdinary, Zenon
<1>8. c \in Code /\ d \in Code /\ c \o c \in Code
  BY <1>4, <1>5, <1>7, Zenon DEF Ordinary, Paired
<1>9. Quiet(c \o c)
  BY <1>4, <1>8, CatQuiet, Zenon
<1>10. Ordinary(p, (c \o c) \o d) /\ Quiet((c \o c) \o d)
  BY <1>5, <1>6, <1>7, <1>8, <1>9, CatOrdinary, CatQuiet, Zenon
<1> QED BY <1>1, <1>2, <1>10, Zenon DEF write_to_vga

LEMMA EmptyBody == ASSUME NEW p PROVE Body(p, <<>>)
<1>1. PICK c : c = <<>> BY Zenon
<1>2. c \in Code /\ c \in Seq(OrdinaryInstructions(p)) /\ DOMAIN c = {}
  BY <1>1 DEF Code
<1> QED BY <1>1, <1>2, Zenon DEF Body, Ordinary, Paired, Guarded, Has

LEMMA KernelMain ==
  ASSUME NEW p \in {"kernel_main", "no_heap", "int3", "page_fault", "overflow"}
  PROVE  Disciplined(p, kernel_main(p))
<1>1. PICK f : f = IF p \in {"page_fault", "overflow"} THEN Do(p) ELSE <<>> BY Zenon
<1>2. PICK g : g = IF p = "int3" THEN Do(p) ELSE <<>> BY Zenon
<1>3. Body(p, f) /\ Body(p, g)
  BY <1>1, <1>2, EmptyBody, FaultBody, Zenon DEF Faults
<1>4. PICK c : c = write_to_vga \o print("bin WRITER") BY Zenon
<1>5. Boot(p, c \o init)
  BY <1>4, WriteToVga, InitBoots, BeforeBoot, Zenon
<1>6. PICK h, m : h = use_heap /\ m = init_heap(p = "no_heap") BY Zenon
<1>7. PICK d : d = print("bin WRITER") BY Zenon
<1>8. Body(p, h) /\ Body(p, d) /\ Body(p, Do("executor_run")) /\ Ends(Do("executor_run"))
  BY <1>6, <1>7, HeapBody, Prints, DoBody, Zenon
<1>18. Body(p, m)
  BY <1>6, InitHeapBody, Zenon
<1>9. PICK c1 : c1 = (c \o init) \o f BY Zenon
<1>10. PICK c2 : c2 = (c1 \o m) \o h BY Zenon
<1>11. PICK c3 : c3 = ((c2 \o d) \o g) \o h BY Zenon
<1>12. Boot(p, c1)
  BY <1>3, <1>5, <1>9, AfterBoot, Zenon
<1>13. Boot(p, c2)
  BY <1>8, <1>10, <1>12, <1>18, AfterBoot, Zenon
<1>14. Boot(p, (c2 \o d) \o g)
  BY <1>3, <1>8, <1>13, AfterBoot, Zenon
<1>15. Boot(p, c3)
  BY <1>8, <1>11, <1>14, AfterBoot, Zenon
<1>16. Disciplined(p, c3 \o Do("executor_run"))
  BY <1>8, <1>15, CatBootEnds, Zenon
<1>17. kernel_main(p) = c3 \o Do("executor_run")
  BY <1>1, <1>2, <1>4, <1>6, <1>7, <1>9, <1>10, <1>11, Zenon DEF kernel_main
<1> QED BY <1>16, <1>17, Zenon

(* A test run, and all of them *)
LEMMA RunBody ==
  ASSUME NEW p, NEW c, Body(p, c)
  PROVE  /\ Body(p, run(c)) /\ Body(p, test_runner(c))
         /\ Quiet(c) => Quiet(run(c)) /\ Quiet(test_runner(c))
<1>1. PICK s : s = serial_print BY Zenon
<1>2. PICK e : e = exit_qemu("Success") BY Zenon
<1>3. Body(p, s) /\ Quiet(s) /\ Body(p, e) /\ Quiet(e)
  BY <1>1, <1>2, Prints, ExitBody, Zenon
<1>4. Body(p, s \o c)
  BY <1>3, CatBody, Zenon
<1>5. Body(p, (s \o c) \o s) /\ Body(p, (s \o c) \o e)
  BY <1>3, <1>4, CatBody, Zenon
<1>6. c \in Code /\ s \in Code /\ e \in Code /\ s \o c \in Code
  BY <1>3, <1>4, BodyCode, Zenon
<1>7. ASSUME Quiet(c) PROVE Quiet((s \o c) \o s) /\ Quiet((s \o c) \o e)
  <2>1. Quiet(s \o c)
    BY <1>3, <1>6, <1>7, CatQuiet, Zenon
  <2> QED BY <1>3, <1>6, <2>1, CatQuiet, Zenon
<1> QED BY <1>1, <1>2, <1>5, <1>7, Zenon DEF run, test_runner

LEMMA TestKernelMain == Disciplined("test_kernel_main", test_kernel_main)
<1>1. PICK p : p = "test_kernel_main" BY Zenon
<1>2. PICK w : w = print("WRITER") BY Zenon
<1>3. Body(p, w) /\ Body(p, Do("int3")) /\ Body(p, hlt_loop) /\ Ends(hlt_loop)
  <2>1. Body(p, w) /\ Body(p, hlt_loop) /\ Ends(hlt_loop)
    BY <1>2, PlainPieces, Zenon DEF Plain
  <2>2. Body(p, Do("int3"))
    BY <1>1, FaultBody, Zenon DEF Faults
  <2> QED BY <2>1, <2>2, Zenon
<1>4. Body(p, w \o w)
  BY <1>3, CatBody, Zenon
<1>5. PICK r1 : r1 = run(Do("int3")) BY Zenon
<1>6. PICK r2 : r2 = run(w) BY Zenon
<1>7. PICK r3 : r3 = run(w \o w) BY Zenon
<1>8. Body(p, r1) /\ Body(p, r2) /\ Body(p, r3)
  BY <1>3, <1>4, <1>5, <1>6, <1>7, RunBody, Zenon
<1>9. Body(p, (r1 \o r2) \o r3)
  BY <1>8, CatBody, Zenon
<1>10. Body(p, ((r1 \o r2) \o r3) \o r2)
  BY <1>8, <1>9, CatBody, Zenon
<1>11. PICK t : t = test_runner(((r1 \o r2) \o r3) \o r2) BY Zenon
<1>12. Body(p, t)
  BY <1>10, <1>11, RunBody, Zenon
<1>13. Boot(p, init \o t)
  BY <1>12, InitBoots, AfterBoot, Zenon
<1>14. Disciplined(p, (init \o t) \o hlt_loop)
  BY <1>3, <1>13, CatBootEnds, Zenon
<1> QED BY <1>1, <1>2, <1>5, <1>6, <1>7, <1>11, <1>14, Zenon DEF test_kernel_main

LEMMA BasicBoot == Disciplined("tests/basic_boot", basic_boot)
<1>1. PICK p : p = "tests/basic_boot" BY Zenon
<1>2. Plain(p, print("WRITER")) /\ Plain(p, hlt_loop) /\ Ends(hlt_loop)
  BY PlainPieces, Zenon
<1>3. Body(p, print("WRITER")) /\ Quiet(print("WRITER")) /\ Body(p, hlt_loop) /\ Quiet(hlt_loop)
  BY <1>2, HandlerQuiet, Zenon DEF Plain
<1>4. PICK t : t = test_runner(run(print("WRITER"))) BY Zenon
<1>5. Body(p, t) /\ Quiet(t)
  BY <1>3, <1>4, RunBody, Zenon
<1>6. t \in Code /\ hlt_loop \in Code
  BY <1>3, <1>5, BodyCode, Zenon
<1>7. Body(p, t \o hlt_loop) /\ Quiet(t \o hlt_loop) /\ Ends(t \o hlt_loop)
  BY <1>2, <1>3, <1>5, <1>6, CatBody, CatQuiet, CatEnds, Zenon
<1> QED BY <1>1, <1>4, <1>7, QuietDisciplined, Zenon DEF basic_boot

LEMMA HeapAllocation ==
  ASSUME NEW p, NEW fails
  PROVE  Disciplined(p, heap_allocation(fails))
<1>1. PICK m : m = init_heap(fails) BY Zenon
<1>2. PICK h : h = use_heap BY Zenon
<1>3. Body(p, h) /\ Body(p, m) /\ Body(p, hlt_loop) /\ Ends(hlt_loop)
  BY <1>1, <1>2, HeapBody, InitHeapBody, PlainPieces, Zenon DEF Plain
<1>4. Body(p, h \o h)
  BY <1>3, CatBody, Zenon
<1>5. PICK r1 : r1 = run(h) BY Zenon
<1>6. PICK r2 : r2 = run(h \o h) BY Zenon
<1>7. Body(p, r1) /\ Body(p, r2)
  BY <1>3, <1>4, <1>5, <1>6, RunBody, Zenon
<1>8. Body(p, (r1 \o r2) \o r1)
  BY <1>7, CatBody, Zenon
<1>9. PICK t : t = test_runner((r1 \o r2) \o r1) BY Zenon
<1>10. Body(p, t)
  BY <1>8, <1>9, RunBody, Zenon
<1>11. Boot(p, (init \o m) \o t)
  BY <1>3, <1>10, InitBoots, AfterBoot, Zenon
<1>12. Disciplined(p, ((init \o m) \o t) \o hlt_loop)
  BY <1>3, <1>11, CatBootEnds, Zenon
<1> QED BY <1>1, <1>2, <1>5, <1>6, <1>9, <1>12, Zenon DEF heap_allocation

LEMMA ShouldPanic == Disciplined("tests/should_panic", should_panic)
<1>1. PICK p : p = "tests/should_panic" BY Zenon
<1>2. Plain(p, should_panic) /\ Ends(should_panic)
  BY PlainPieces, CatPlainEnds, Zenon DEF should_panic
<1> QED BY <1>1, <1>2, HandlerQuiet, QuietDisciplined, Zenon DEF Plain

LEMMA StackOverflow == Disciplined("tests/stack_overflow", stack_overflow)
<1>1. PICK p : p = "tests/stack_overflow" BY Zenon
<1>2. PICK l : l = << <<"load_idt", "TEST_IDT">> >> BY Zenon
<1>3. Body(p, l)
  BY <1>1, <1>2, TestTableBody, Zenon
<1>4. Body(p, Do("overflow"))
  BY <1>1, FaultBody, Zenon DEF Faults
<1>5. Body(p, Do("panic")) /\ Ends(Do("panic"))
  BY PlainPieces, Zenon DEF Plain
<1>6. Ordinary(p, serial_print) /\ Quiet(serial_print)
  BY Prints, BodyCode, Zenon
<1>7. Boot(p, serial_print \o init)
  BY <1>6, InitBoots, BeforeBoot, Zenon
<1>8. Boot(p, (serial_print \o init) \o l)
  BY <1>3, <1>7, AfterBoot, Zenon
<1>9. Boot(p, ((serial_print \o init) \o l) \o Do("overflow"))
  BY <1>4, <1>8, AfterBoot, Zenon
<1>10. Disciplined(p, (((serial_print \o init) \o l) \o Do("overflow")) \o Do("panic"))
  BY <1>5, <1>9, CatBootEnds, Zenon
<1> QED BY <1>1, <1>2, <1>10, Zenon DEF stack_overflow

(* The code of every entry point of the repository keeps the discipline:   *)
(* locks are given back at once and, but for the allocator's, taken with   *)
(* interrupts off; init comes before interrupts and exceptions.            *)
THEOREM EntryPointsDisciplined == \A p \in EntryPoints : Disciplined(p, code(p))
<1>1. ASSUME NEW p \in {"kernel_main", "no_heap", "int3", "page_fault", "overflow"}
      PROVE  Disciplined(p, code(p))
  <2>1. code(p) = kernel_main(p)
    BY Zenon DEF code
  <2> QED BY <2>1, KernelMain, Zenon
<1>2. /\ code("test_kernel_main") = test_kernel_main
      /\ code("tests/basic_boot") = basic_boot
      /\ code("tests/heap_allocation") = heap_allocation(FALSE)
      /\ code("tests/heap_allocation no_heap") = heap_allocation(TRUE)
      /\ code("tests/should_panic") = should_panic
      /\ code("tests/stack_overflow") = stack_overflow
  BY DEF code
<1> QED BY <1>1, <1>2, TestKernelMain, BasicBoot, HeapAllocation, ShouldPanic, StackOverflow, Zenon
        DEF EntryPoints

-----------------------------------------------------------------------------
(* The first instruction *)
LEMMA NonemptyCode == ASSUME NEW c \in Code, c # <<>> PROVE 1 \in DOMAIN c /\ Head(c) = c[1]
  BY DEF Code

IsTail(t, c) ==
  /\ t \in Code
  /\ \A i \in DOMAIN t : i \in Nat \ {0} /\ i + 1 \in DOMAIN c /\ t[i] = c[i + 1]

LEMMA TailIs == ASSUME NEW c \in Code, c # <<>> PROVE IsTail(Tail(c), c)
  BY TailAt, Zenon DEF IsTail

LEMMA NoneEarlier == ASSUME NEW c \in Code, NEW op PROVE ~Earlier(c, 1, op)
<1>1. \A j \in DOMAIN c : ~(j < 1)
  BY DEF Code
<1> QED BY <1>1, Zenon DEF Earlier

-----------------------------------------------------------------------------
(* What a step does to the code below the handler *)
Enders == {"hlt_loop", "executor_run", "panic", "iretq"}

Goes(c, flag, saved, tss, table, pics, flag2, saved2, tss2, table2, pics2) ==
  /\ c[1][1] \notin Enders
  /\ tss \/ c[1][1] = "load_tss" => tss2
  /\ table # "none" \/ c[1][1] = "load_idt" => table2 # "none"
  /\ pics \/ c[1][1] = "initialize" => pics2
  /\ flag2 \/ saved2 => flag \/ saved \/ c[1][1] \in Enabling
  /\ c[1][1] = "without_interrupts" => ~flag2

LEMMA BaseTail ==
  ASSUME NEW p, NEW c, NEW flag, NEW saved, NEW tss, NEW table, NEW pics,
         BaseOK(p, c, flag, saved, tss, table, pics),
         NEW flag2, NEW saved2, NEW tss2, NEW table2, NEW pics2,
         Goes(c, flag, saved, tss, table, pics, flag2, saved2, tss2, table2, pics2)
  PROVE  BaseOK(p, Tail(c), flag2, saved2, tss2, table2, pics2)
<1>t. PICK t : t = Tail(c) BY Zenon
<1>0. /\ c[1][1] \notin Enders
      /\ tss \/ c[1][1] = "load_tss" => tss2
      /\ table # "none" \/ c[1][1] = "load_idt" => table2 # "none"
      /\ pics \/ c[1][1] = "initialize" => pics2
      /\ flag2 \/ saved2 => flag \/ saved \/ c[1][1] \in Enabling
      /\ c[1][1] = "without_interrupts" => ~flag2
  BY Zenon DEF Goes
<1>1. Ordinary(p, c) /\ Ends(c) /\ c \in Code /\ c # <<>>
  BY Zenon DEF BaseOK, Ordinary, Paired, Ends
<1>2. Ordinary(p, t)
  BY <1>t, <1>1, TailOrdinary, Zenon
<1>3. Ends(t) /\ t # <<>>
  BY <1>t, <1>0, <1>1, TailEnds, Zenon DEF Enders
<1>4. /\ t \in Code /\ 1 \in DOMAIN c /\ 1 \in DOMAIN t
      /\ \A i \in DOMAIN t : i \in Nat \ {0} /\ i + 1 \in DOMAIN c /\ t[i] = c[i + 1]
  <2>1. IsTail(t, c)
    BY <1>t, <1>1, TailIs, Zenon
  <2>2. 1 \in DOMAIN t /\ 1 \in DOMAIN c
    BY <1>1, <1>3, <2>1, NonemptyCode, Zenon DEF IsTail
  <2> QED BY <2>1, <2>2, Zenon DEF IsTail
<1>5. \A i \in DOMAIN t : \A op : /\ Later(c, i + 1, op) <=> Later(t, i, op)
                                  /\ Later(t, i, op) => Later(c, 1, op)
                                  /\ Earlier(c, i + 1, op) <=> c[1][1] = op \/ Earlier(t, i, op)
  BY <1>t, <1>1, TailOrder, Zenon
<1>6. \A i \in DOMAIN c : c[i][1] = "initialize" => ~flag /\ ~saved
  BY Zenon DEF BaseOK
<1>7. ASSUME flag2 \/ saved2 PROVE \A i \in DOMAIN t : t[i][1] # "initialize"
  <2>1. CASE c[1][1] \in Enabling
    <3>1. ~Later(c, 1, "initialize")
      BY <1>1, <1>4, <2>1, Zenon DEF Ordinary
    <3>2. \A i \in DOMAIN t : i + 1 > 1
      BY <1>4
    <3> QED BY <1>4, <3>1, <3>2, Zenon DEF Later
  <2>2. CASE flag \/ saved
    BY <1>4, <1>6, <2>2, Zenon
  <2> QED BY <1>0, <1>7, <2>1, <2>2, Zenon
<1>8. ASSUME NEW i \in DOMAIN t, i > 1 PROVE Protected(t, i)
  <2>1. i \in Nat \ {0} /\ i + 1 \in DOMAIN c /\ i + 1 > 1 /\ (i + 1) - 1 = i /\ i - 1 \in DOMAIN t /\ (i - 1) + 1 = i
    BY <1>4, <1>8 DEF Code
  <2>2. t[i] = c[i + 1] /\ t[i - 1] = c[i]
    BY <1>4, <2>1
  <2>3. Protected(c, i + 1)
    BY <2>1, Zenon DEF BaseOK
  <2>4. Later(c, i + 1, "initialize") => Later(t, i, "initialize")
    BY <1>5, Zenon
  <2> QED BY <1>8, <2>1, <2>2, <2>3, <2>4, Zenon DEF Protected
<1>9. ASSUME NEW i \in DOMAIN t, t[i][1] \in Enabling \cup Faults
      PROVE  LoadedAt(t, i, tss2, table2, pics2)
  <2>1. LoadedAt(c, i + 1, tss, table, pics)
    BY <1>4, <1>9, Zenon DEF BaseOK
  <2> QED BY <1>0, <1>5, <2>1, Zenon DEF LoadedAt
<1>10. ASSUME t[1][1] = "lock" /\ t[1][2] # "ALLOCATOR" PROVE ~flag2
  <2>1. 1 + 1 = 2 /\ 2 > 1 /\ 2 - 1 = 1
    OBVIOUS
  <2>2. 2 \in DOMAIN c /\ t[1] = c[2]
    BY <1>4, <2>1, Zenon
  <2>3. Protected(c, 2)
    BY <2>1, <2>2, Zenon DEF BaseOK
  <2>4. c[1][1] = "without_interrupts" \/ Later(c, 2, "initialize")
    BY <1>10, <2>1, <2>2, <2>3, Zenon DEF Protected
  <2>5. Later(c, 2, "initialize") => Later(t, 1, "initialize")
    BY <1>4, <1>5, <2>1, Zenon
  <2> QED BY <1>0, <1>7, <2>4, <2>5, Zenon DEF Later
<1>11. flag2 \/ saved2 => tss2 /\ table2 # "none" /\ pics2
  <2>1. CASE flag \/ saved
    BY <1>0, <2>1, Zenon DEF BaseOK
  <2>2. CASE c[1][1] \in Enabling
    <3>1. LoadedAt(c, 1, tss, table, pics)
      BY <1>4, <2>2, Zenon DEF BaseOK
    <3>2. \A op : ~Earlier(c, 1, op)
      BY <1>1, NoneEarlier, Zenon
    <3> QED BY <1>0, <3>1, <3>2, Zenon DEF LoadedAt
  <2> QED BY <1>0, <2>1, <2>2, Zenon
<1> QED BY <1>t, <1>2, <1>3, <1>7, <1>8, <1>9, <1>10, <1>11, Zenon DEF BaseOK

(* A piece of code d is called, once the kernel has booted. *)
LEMMA BaseCall ==
  ASSUME NEW p, NEW c, NEW flag, NEW saved, NEW tss, NEW table, NEW pics,
         BaseOK(p, c, flag, saved, tss, table, pics), tss, table # "none", pics,
         ~Has(c, "initialize"), ~(c[1][1] = "lock" /\ c[1][2] # "ALLOCATOR"),
         NEW d, Body(p, d)
  PROVE  BaseOK(p, d \o c, flag, saved, tss, table, pics)
<1>1. PICK s : s = d \o c BY Zenon
<1>2. PICK n : n = Len(d) BY Zenon
<1>3. Ordinary(p, c) /\ Ends(c) /\ c \in Code /\ Ordinary(p, d) /\ d \in Code
  BY BodyCode, Zenon DEF BaseOK, Ordinary, Paired
<1>4. Ordinary(p, s) /\ Ends(s)
  BY <1>1, <1>3, CatOrdinary, CatEnds, Zenon
<1>5. Pieced(s, d, c, n)
  BY <1>1, <1>2, <1>3, CatCases, Zenon
<1>6. ASSUME NEW i \in DOMAIN s
      PROVE  /\ s[i][1] # "initialize"
             /\ Protected(s, i)
  <2>1. CASE i \in DOMAIN d /\ s[i] = d[i]
    <3>1. Protected(d, i) /\ d[i][1] # "initialize"
      BY <2>1, Zenon DEF Body, Guarded, Protected, Has
    <3> QED BY <1>1, <1>2, <1>3, <2>1, <3>1, CatProtected, Zenon
  <2>2. CASE \E k \in DOMAIN c : i = n + k /\ s[i] = c[k]
    <3>1. PICK k \in DOMAIN c : i = n + k /\ s[i] = c[k]
      BY <2>2, Zenon
    <3>2. CASE k > 1
      <4>1. Protected(c, k)
        BY <3>2, Zenon DEF BaseOK
      <4> QED BY <1>1, <1>2, <1>3, <3>1, <3>2, <4>1, CatProtected, Zenon DEF Has
    <3>3. CASE ~(k > 1)
      <4>1. k = 1
        BY <1>3, <3>3, CodeDomain
      <4> QED BY <3>1, <4>1, Zenon DEF Protected, Has
    <3> QED BY <3>2, <3>3, Zenon
  <2> QED BY <1>5, <2>1, <2>2, Zenon DEF Pieced
<1>7. s # <<>> /\ 1 \in DOMAIN s
  BY <1>4, NonemptyCode, Zenon DEF Ends, Ordinary, Paired
<1>8. s[1][1] = "lock" /\ s[1][2] # "ALLOCATOR" => ~flag
  <2>1. ~(1 > 1)
    OBVIOUS
  <2>2. Protected(s, 1)
    BY <1>6, <1>7, Zenon
  <2>3. ~Later(s, 1, "initialize")
    BY <1>6, Zenon DEF Later
  <2> QED BY <2>1, <2>2, <2>3, Zenon DEF Protected
<1> QED BY <1>1, <1>4, <1>6, <1>8, Zenon DEF BaseOK, LoadedAt

LEMMA BaseReplaced ==
  ASSUME NEW p, NEW c, NEW flag, NEW saved, NEW tss, NEW table, NEW pics,
         flag \/ saved => tss /\ table # "none" /\ pics,
         Plain(p, c), Ends(c)
  PROVE  BaseOK(p, c, flag, saved, tss, table, pics)
<1>1. Body(p, c) /\ Quiet(c)
  BY HandlerQuiet, Zenon DEF Plain
<1>2. Ordinary(p, c) /\ c \in Code /\ c # <<>>
  BY <1>1, BodyCode, Zenon DEF Ends
<1>3. 1 \in DOMAIN c
  BY <1>2, NonemptyCode, Zenon
<1>4. \A i \in DOMAIN c : Protected(c, i)
  BY <1>1, Zenon DEF Body, Guarded, Protected
<1>5. ~(c[1][1] = "lock" /\ c[1][2] # "ALLOCATOR")
  <2>1. ~(1 > 1)
    OBVIOUS
  <2> QED BY <1>1, <1>3, <2>1, Zenon DEF Body, Guarded
<1> QED BY <1>1, <1>2, <1>4, <1>5, Zenon DEF BaseOK, Quiet

LEMMA BaseBooted ==
  ASSUME NEW p, NEW c, NEW flag, NEW saved, NEW tss, NEW table, NEW pics,
         BaseOK(p, c, flag, saved, tss, table, pics), c[1][1] \in Enabling \cup Faults
  PROVE  /\ tss /\ table # "none" /\ pics
         /\ c[1][1] \in Enabling => ~Has(c, "initialize")
<1>1. c \in Code /\ c # <<>> /\ Ordinary(p, c)
  BY Zenon DEF BaseOK, Ordinary, Paired, Ends
<1>2. 1 \in DOMAIN c /\ \A op : ~Earlier(c, 1, op)
  BY <1>1, NonemptyCode, NoneEarlier, Zenon
<1>3. LoadedAt(c, 1, tss, table, pics)
  BY <1>2, Zenon DEF BaseOK
<1>4. ASSUME c[1][1] \in Enabling PROVE ~Has(c, "initialize")
  <2>1. ~Later(c, 1, "initialize")
    BY <1>1, <1>2, <1>4, Zenon DEF Ordinary
  <2>2. \A i \in DOMAIN c : i = 1 \/ i > 1
    BY <1>1, CodeDomain
  <2> QED BY <1>4, <2>1, <2>2, Zenon DEF Has, Later, Enabling
<1> QED BY <1>2, <1>3, <1>4, Zenon DEF LoadedAt

-----------------------------------------------------------------------------
(* What a step does to the stack *)
Moves(c, sv) ==
  /\ stack' \in Seq(ContextType) /\ Len(stack') = Depth
  /\ stack'[Depth].code = c /\ stack'[Depth].saved = sv
  /\ stack'[Depth].line = stack[Depth].line /\ stack'[Depth].iflag = stack[Depth].iflag
  /\ Depth = 2 => stack'[1] = stack[1]

Replaced(q2, q, S, r) ==
  q2 \in Seq(S) /\ Len(q2) = Len(q) /\ q2[Len(q)] = r /\ (Len(q) = 2 => q2[1] = q[1])

LEMMA TopReplaced ==
  ASSUME NEW S, NEW q \in Seq(S), Len(q) \in {1, 2}, NEW r \in S
  PROVE  Replaced([q EXCEPT ![Len(q)] = r], q, S, r)
  BY DEF Replaced

LEMMA StackTop ==
  ASSUME KernelTypeOK
  PROVE  Depth \in DOMAIN stack /\ Running \in ContextType /\ stack[1] \in ContextType
<1>1. stack \in Seq(ContextType) /\ Len(stack) \in {1, 2}
  BY Zenon DEF KernelTypeOK, Depth
<1> QED BY <1>1 DEF Depth, Running

LEMMA ContinueMoves ==
  ASSUME KernelTypeOK, NEW c \in Code, Continue(c)
  PROVE  Moves(c, Running.saved)
<1>1. stack \in Seq(ContextType) /\ Len(stack) \in {1, 2}
  BY Zenon DEF KernelTypeOK, Depth
<1>2. PICK r : r = [stack[Len(stack)] EXCEPT !.code = c] BY Zenon
<1>3. stack[Len(stack)] \in ContextType
  BY StackTop, Zenon DEF Running, Depth
<1>4. /\ r \in ContextType /\ r.code = c /\ r.saved = stack[Len(stack)].saved
      /\ r.line = stack[Len(stack)].line /\ r.iflag = stack[Len(stack)].iflag
  BY <1>2, <1>3 DEF ContextType
<1>5. stack' = [stack EXCEPT ![Len(stack)] = r]
  BY <1>2 DEF Continue, Depth
<1>6. /\ stack' \in Seq(ContextType) /\ Len(stack') = Len(stack)
      /\ stack'[Len(stack)] = r /\ (Len(stack) = 2 => stack'[1] = stack[1])
  <2>1. Replaced([stack EXCEPT ![Len(stack)] = r], stack, ContextType, r)
    BY <1>1, <1>4, TopReplaced, Zenon
  <2> QED BY <1>5, <2>1, Zenon DEF Replaced
<1> QED BY <1>4, <1>6, Zenon DEF Moves, Depth, Running

LEMMA WithoutMoves ==
  ASSUME KernelTypeOK, NEW c \in Code,
         stack' = [stack EXCEPT ![Depth].code = c, ![Depth].saved = int_enabled]
  PROVE  Moves(c, int_enabled)
<1>1. stack \in Seq(ContextType) /\ Len(stack) \in {1, 2} /\ int_enabled \in BOOLEAN
  BY Zenon DEF KernelTypeOK, Depth
<1>2. PICK r : r = [stack[Len(stack)] EXCEPT !.code = c, !.saved = int_enabled] BY Zenon
<1>3. stack[Len(stack)] \in ContextType
  BY StackTop, Zenon DEF Running, Depth
<1>4. /\ r \in ContextType /\ r.code = c /\ r.saved = int_enabled
      /\ r.line = stack[Len(stack)].line /\ r.iflag = stack[Len(stack)].iflag
  BY <1>1, <1>2, <1>3, Zenon DEF ContextType
<1>5. stack' = [stack EXCEPT ![Len(stack)] = r]
  BY <1>1, <1>2, <1>3, Zenon DEF Depth, ContextType
<1>6. /\ stack' \in Seq(ContextType) /\ Len(stack') = Len(stack)
      /\ stack'[Len(stack)] = r /\ (Len(stack) = 2 => stack'[1] = stack[1])
  <2>1. Replaced([stack EXCEPT ![Len(stack)] = r], stack, ContextType, r)
    BY <1>1, <1>4, TopReplaced, Zenon
  <2> QED BY <1>5, <2>1, Zenon DEF Replaced
<1> QED BY <1>4, <1>6, Zenon DEF Moves, Depth

(* The running code *)
LEMMA RunningCode ==
  ASSUME KernelInv
  PROVE  LET c == stack[Depth].code
         IN /\ KernelTypeOK /\ Paired(c) /\ Ends(c) /\ c \in Code /\ c # <<>>
            /\ 1 \in DOMAIN c /\ Head(c) = c[1] /\ c[1] \in Instructions
            /\ Depth = 1 => Ordinary(program, c)
            /\ Depth = 2 => HandlerCode(c)
<1>1. KernelTypeOK /\ BaseInv /\ (Depth = 1 \/ Depth = 2) /\ (Depth = 2 => HandlerInv)
  BY Zenon DEF KernelInv, KernelTypeOK
<1>2. PICK c : c = stack[Depth].code BY Zenon
<1>5. Paired(c) /\ Ends(c)
  <2>1. CASE Depth = 1
    BY <1>1, <1>2, <2>1, Zenon DEF BaseInv, BaseOK, Ordinary
  <2>2. CASE Depth = 2
    BY <1>1, <1>2, <2>2, Zenon DEF HandlerInv, HandlerCode
  <2> QED BY <1>1, <2>1, <2>2, Zenon
<1>6. c \in Code /\ c # <<>>
  BY <1>5, Zenon DEF Paired, Ends
<1>7. 1 \in DOMAIN c /\ Head(c) = c[1] /\ c[1] \in Instructions
  BY <1>6, NonemptyCode, CodeDomain, Zenon
<1>8. /\ Depth = 1 => Ordinary(program, c)
      /\ Depth = 2 => HandlerCode(c)
  BY <1>1, <1>2, Zenon DEF BaseInv, BaseOK, HandlerInv
<1> QED BY <1>1, <1>2, <1>5, <1>6, <1>7, <1>8, Zenon

-----------------------------------------------------------------------------
(* What a step does to the locks *)
OnlyBelow ==
  \A l \in Locks : owner[l] # 0 =>
    l = "ALLOCATOR" /\ Depth = 2 /\ owner[l] = 1 /\ Gives(stack[1].code, 1, l)

LEMMA GivesFirst ==
  ASSUME NEW c, NEW l, Gives(c, 1, l)
  PROVE  /\ c[1][1] \in {"unlock", "eoi", "initialize"}
         /\ c[1][1] = "unlock" => c[1] = <<"unlock", l>> /\ c[1][2] = l
         /\ c[1][1] # "unlock" => l = "PICS" /\ Gives(c, 2, l)
<1>1. 1 + 1 = 2
  OBVIOUS
<1>2. \/ c[1] = <<"unlock", l>>
      \/ l = "PICS" /\ c[1][1] \in {"eoi", "initialize"} /\ 2 \in DOMAIN c /\ c[2] = <<"unlock", l>>
  BY <1>1, Zenon DEF Gives
<1>3. <<"unlock", l>>[1] = "unlock" /\ <<"unlock", l>>[2] = l
  OBVIOUS
<1> QED BY <1>2, <1>3, Zenon DEF Gives

LEMMA NoLockHeld ==
  ASSUME KernelInv, stack[Depth].code[1][1] \notin {"unlock", "eoi", "initialize"}
  PROVE  OnlyBelow
<1>1. ASSUME NEW l \in Locks, owner[l] # 0
      PROVE  l = "ALLOCATOR" /\ Depth = 2 /\ owner[l] = 1 /\ Gives(stack[1].code, 1, l)
  <2>1. /\ Gives(stack[owner[l]].code, 1, l)
        /\ IF l = "ALLOCATOR" THEN owner[l] = 1 ELSE owner[l] = Depth /\ ~int_enabled
    BY <1>1, Zenon DEF KernelInv, LockInv
  <2>2. owner[l] # Depth
    BY <2>1, GivesFirst, Zenon
  <2>3. Depth \in {1, 2}
    BY Zenon DEF KernelInv, KernelTypeOK
  <2> QED BY <2>1, <2>2, <2>3, Zenon
<1> QED BY <1>1, Zenon DEF OnlyBelow

LEMMA LocksKept ==
  ASSUME OnlyBelow, owner' = owner, Depth \in {1, 2}, Len(stack') = Depth,
         Depth = 2 => stack'[1] = stack[1]
  PROVE  LockInv'
<1>1. ASSUME NEW l \in Locks, owner'[l] # 0
      PROVE  /\ owner'[l] \in 1 .. Len(stack')
             /\ Gives(stack'[owner'[l]].code, 1, l)
             /\ l = "ALLOCATOR" /\ owner'[l] = 1
  <2>1. l = "ALLOCATOR" /\ Depth = 2 /\ owner'[l] = 1 /\ Gives(stack[1].code, 1, l)
    BY <1>1, Zenon DEF OnlyBelow
  <2>2. 1 \in 1 .. 2
    OBVIOUS
  <2> QED BY <2>1, <2>2, Zenon
<1> QED BY <1>1, Zenon DEF LockInv, Depth

(* What a step does to the whole *)
LEMMA BaseMoves ==
  ASSUME KernelInv, Depth = 1, NEW c, NEW sv, Moves(c, sv),
         BaseOK(program, c, int_enabled', sv, tss_loaded', idt', pic_initialized'),
         program' = program, int_enabled' \in BOOLEAN,
         tss_loaded' \in BOOLEAN, pic_initialized' \in BOOLEAN,
         idt' \in Tables, idt' = "TEST_IDT" => program = "tests/stack_overflow",
         owner' \in [Locks -> {0, 1, 2}], LockInv',
         pending' = pending, in_service' = {}, machine' # "reset",
         double_faulted' = double_faulted
  PROVE  KernelInv'
<1>1. /\ stack' \in Seq(ContextType) /\ Len(stack') = 1
      /\ stack'[1].code = c /\ stack'[1].saved = sv
  BY Zenon DEF Moves
<1>2. Depth' = 1 /\ Flag' = int_enabled' /\ 1 # 2
  BY <1>1 DEF Depth, Flag
<1>3. BaseInv'
  BY <1>1, <1>2, Zenon DEF BaseInv
<1>4. pending' \subseteq Lines /\ in_service' \subseteq Lines
  BY Zenon DEF KernelInv, KernelTypeOK
<1>5. KernelTypeOK'
  BY <1>1, <1>2, <1>4, Zenon DEF KernelTypeOK
<1>6. double_faulted' => program' \in {"overflow", "tests/stack_overflow"}
  BY Zenon DEF KernelInv
<1> QED BY <1>2, <1>3, <1>5, <1>6, Zenon DEF KernelInv

LEMMA HandlerMoves ==
  ASSUME KernelInv, Depth = 2, NEW c, Moves(c, FALSE), HandlerCode(c), Ends(c),
         UNCHANGED <<program, tables>>, int_enabled' = FALSE,
         owner' \in [Locks -> {0, 1, 2}], LockInv',
         pending' = pending, in_service' \subseteq in_service,
         in_service' # {} => EndsInterrupt(c),
         machine' # "reset", double_faulted' = double_faulted
  PROVE  KernelInv'
<1>1. /\ stack' \in Seq(ContextType) /\ Len(stack') = 2 /\ stack'[1] = stack[1]
      /\ stack'[2].code = c /\ stack'[2].saved = FALSE
      /\ stack'[2].line = stack[2].line /\ stack'[2].iflag = stack[2].iflag
  BY Zenon DEF Moves
<1>2. Depth' = 2 /\ 1 # 2
  BY <1>1 DEF Depth
<1>3. Flag' = Flag
  BY <1>1, <1>2, Zenon DEF Flag
<1>4. BaseInv'
  BY <1>1, <1>3, Zenon DEF BaseInv, KernelInv, tables
<1>5. KernelTypeOK'
  BY <1>1, <1>2, Zenon DEF KernelTypeOK, KernelInv, tables
<1>6. HandlerInv'
  <2>1. in_service \subseteq {stack[2].line} \cap Lines
    BY Zenon DEF KernelInv, HandlerInv
  <2>2. in_service' \subseteq {stack'[2].line} \cap Lines
    BY <1>1, <2>1, Zenon
  <2> QED BY <1>1, <2>2, Zenon DEF HandlerInv
<1>7. double_faulted' => program' \in {"overflow", "tests/stack_overflow"}
  BY Zenon DEF KernelInv
<1> QED BY <1>2, <1>4, <1>5, <1>6, <1>7, Zenon DEF KernelInv

LEMMA HandlerHead == ASSUME NEW c, HandlerCode(c), 1 \in DOMAIN c PROVE c[1] \in HandlerInstructions
<1>1. c \in Seq(HandlerInstructions)
  BY Zenon DEF HandlerCode
<1> QED BY <1>1

Steps(c, sv) ==
  /\ c = stack[Depth].code /\ c[1][1] \notin Enders
  /\ sv \in BOOLEAN /\ Moves(Tail(c), sv)
  /\ program' = program /\ int_enabled' \in BOOLEAN
  /\ int_enabled' \/ sv => int_enabled \/ stack[Depth].saved \/ c[1][1] \in Enabling
  /\ c[1][1] = "without_interrupts" => ~int_enabled'
  /\ c[1][1] \notin BootSteps => UNCHANGED tables
  /\ tss_loaded \/ c[1][1] = "load_tss" => tss_loaded'
  /\ idt # "none" \/ c[1][1] = "load_idt" => idt' # "none"
  /\ pic_initialized \/ c[1][1] = "initialize" => pic_initialized'
  /\ tss_loaded' \in BOOLEAN /\ pic_initialized' \in BOOLEAN
  /\ idt' \in Tables /\ (idt' = "TEST_IDT" => program = "tests/stack_overflow")
  /\ owner' \in [Locks -> {0, 1, 2}] /\ LockInv'
  /\ pending' = pending /\ in_service' \subseteq in_service
  /\ in_service' # {} => c[1][1] # "eoi"
  /\ machine' # "reset" /\ double_faulted' = double_faulted

LEMMA TailStep ==
  ASSUME KernelInv, NEW c, NEW sv, Steps(c, sv)
  PROVE  KernelInv'
<1> USE DEF Steps
<1>1. /\ KernelTypeOK /\ Paired(c) /\ Ends(c) /\ c \in Code /\ c # <<>> /\ 1 \in DOMAIN c
      /\ Depth = 2 => HandlerCode(c)
  BY RunningCode, Zenon
<1>2. CASE Depth = 1
  <2>1. BaseOK(program, c, int_enabled, stack[1].saved, tss_loaded, idt, pic_initialized)
    BY <1>2, Zenon DEF KernelInv, BaseInv, Flag
  <2>3. BaseOK(program, Tail(c), int_enabled', sv, tss_loaded', idt', pic_initialized')
    <3>1. Goes(c, int_enabled, stack[1].saved, tss_loaded, idt, pic_initialized,
               int_enabled', sv, tss_loaded', idt', pic_initialized')
      BY <1>2, Zenon DEF Goes
    <3> QED BY <2>1, <3>1, BaseTail, Zenon
  <2>4. in_service' = {}
    BY <1>2, Zenon DEF KernelInv
  <2> QED BY <1>2, <2>3, <2>4, BaseMoves, Zenon
<1>3. CASE Depth = 2
  <2>1. HandlerInv /\ HandlerCode(c)
    BY <1>1, <1>3, Zenon DEF KernelInv
  <2>2. c[1] \in HandlerInstructions
    BY <1>1, <2>1, HandlerHead, Zenon
  <2>3. c[1][1] \notin Enabling /\ c[1][1] \notin BootSteps
    BY <2>2, Zenon DEF HandlerInstructions
  <2>4. ~int_enabled' /\ ~sv
    BY <1>3, <2>1, <2>3, Zenon DEF HandlerInv
  <2>5. int_enabled' = FALSE /\ sv = FALSE /\ Moves(Tail(c), FALSE)
    BY <2>4, Zenon
  <2>6. HandlerCode(Tail(c))
    BY <1>1, <2>1, TailHandler, Zenon
  <2>7. Ends(Tail(c))
    BY <1>1, TailEnds, Zenon DEF Enders
  <2>8. in_service' # {} => EndsInterrupt(Tail(c))
    <3>1. in_service' # {} => EndsInterrupt(c)
      BY <1>3, <2>1, Zenon DEF HandlerInv
    <3> QED BY <1>1, <3>1, TailEndsInterrupt, Zenon
  <2> QED BY <1>3, <2>3, <2>5, <2>6, <2>7, <2>8, HandlerMoves, Zenon
<1> QED BY <1>1, <1>2, <1>3, Zenon DEF KernelTypeOK

(* A lock that is held is the PICs', about to be given back. *)
LEMMA LocksMoved ==
  ASSUME KernelInv, NEW c, c = stack[Depth].code, c[1][1] # "unlock",
         NEW sv, Moves(Tail(c), sv), owner' = owner, int_enabled' = int_enabled
  PROVE  LockInv'
<1>1. c \in Code /\ c # <<>> /\ KernelTypeOK
  BY RunningCode, Zenon
<1>2. Depth \in {1, 2} /\ Len(stack') = Depth /\ stack'[Depth].code = Tail(c)
      /\ (Depth = 2 => stack'[1] = stack[1])
  BY <1>1, Zenon DEF Moves, KernelTypeOK
<1>3. ASSUME NEW l \in Locks, owner[l] # 0
      PROVE  /\ owner[l] \in 1 .. Len(stack')
             /\ Gives(stack'[owner[l]].code, 1, l)
             /\ IF l = "ALLOCATOR" THEN owner[l] = 1 ELSE owner[l] = Len(stack') /\ ~int_enabled
  <2>1. /\ owner[l] \in 1 .. Depth
        /\ Gives(stack[owner[l]].code, 1, l)
        /\ IF l = "ALLOCATOR" THEN owner[l] = 1 ELSE owner[l] = Depth /\ ~int_enabled
    BY <1>3, Zenon DEF KernelInv, LockInv
  <2>2. CASE owner[l] = Depth
    <3>1. Gives(c, 2, l)
      BY <2>1, <2>2, GivesFirst, Zenon
    <3>2. 1 \in Nat \ {0} /\ 1 + 1 = 2
      OBVIOUS
    <3>4. Gives(c, 1 + 1, l)
      BY <3>1, <3>2, Zenon
    <3>3. Gives(Tail(c), 1, l)
      BY <1>1, <3>2, <3>4, TailGives, Zenon
    <3> QED BY <1>2, <2>1, <2>2, <3>3, Zenon
  <2>3. CASE owner[l] # Depth
    <3>1. owner[l] = 1 /\ Depth = 2
      BY <1>2, <2>1, <2>3, Zenon
    <3> QED BY <1>2, <2>1, <3>1, Zenon
  <2> QED BY <2>2, <2>3, Zenon
<1> QED BY <1>3, Zenon DEF LockInv, Depth

-----------------------------------------------------------------------------
(* The steps *)
LEMMA AtHead ==
  ASSUME KernelInv, NEW op, At(op), NEW c, c = stack[Depth].code
  PROVE  /\ machine = "running" /\ c[1][1] = op /\ Rest = Tail(c) /\ Argument = c[1][2]
         /\ Rest \in Code /\ KernelTypeOK /\ c \in Code /\ c # <<>> /\ 1 \in DOMAIN c
         /\ Paired(c) /\ (Depth = 1 \/ Depth = 2) /\ c = Running.code
<1>1. /\ KernelTypeOK /\ Paired(c) /\ c \in Code /\ c # <<>>
      /\ 1 \in DOMAIN c /\ Head(c) = c[1]
  BY RunningCode, Zenon
<1>2. c = Running.code
  BY Zenon DEF Running
<1>3. Rest = Tail(c) /\ Argument = c[1][2] /\ c[1][1] = op /\ machine = "running"
  BY <1>1, <1>2, Zenon DEF Rest, Argument, At
<1>4. Tail(c) \in Code
  BY <1>1, TailIs, Zenon DEF IsTail
<1>5. Depth = 1 \/ Depth = 2
  BY <1>1, Zenon DEF KernelTypeOK
<1> QED BY <1>1, <1>2, <1>3, <1>4, <1>5, Zenon

(* A step to the next instruction that leaves tables and locks alone *)
LEMMA SimpleStep ==
  ASSUME KernelInv, NEW op, At(op), op \notin Enders \cup BootSteps \cup {"lock", "unlock", "eoi"},
         NEW sv \in BOOLEAN, Moves(Rest, sv),
         int_enabled' \in BOOLEAN,
         int_enabled' \/ sv => int_enabled \/ Running.saved \/ op \in Enabling,
         op = "without_interrupts" => ~int_enabled',
         UNCHANGED <<program, owner, tables, pending, in_service, double_faulted>>,
         machine' # "reset"
  PROVE  KernelInv'
<1>1. PICK c : c = stack[Depth].code BY Zenon
<1>2. /\ c[1][1] = op /\ Rest = Tail(c) /\ KernelTypeOK /\ (Depth = 1 \/ Depth = 2)
  BY <1>1, AtHead, Zenon
<1>3. c[1][1] \notin {"unlock", "eoi", "initialize"}
  BY <1>2, Zenon DEF BootSteps
<1>4. OnlyBelow
  BY <1>1, <1>3, NoLockHeld, Zenon
<1>5. Len(stack') = Depth /\ (Depth = 2 => stack'[1] = stack[1])
  BY Zenon DEF Moves
<1>6. LockInv'
  <2>1. owner' = owner /\ Depth \in {1, 2}
    BY <1>2, Zenon
  <2> QED BY <1>4, <1>5, <2>1, LocksKept, Zenon
<1>7. UNCHANGED tables /\ tss_loaded' = tss_loaded /\ idt' = idt /\ pic_initialized' = pic_initialized
  BY Zenon DEF tables
<1>8. /\ tss_loaded' \in BOOLEAN /\ pic_initialized' \in BOOLEAN
      /\ idt' \in Tables /\ (idt' = "TEST_IDT" => program = "tests/stack_overflow")
      /\ owner' \in [Locks -> {0, 1, 2}]
  BY <1>2, <1>7, Zenon DEF KernelTypeOK
<1>9. /\ c[1][1] \notin Enders /\ c[1][1] # "load_tss" /\ c[1][1] # "load_idt"
      /\ c[1][1] # "initialize" /\ c[1][1] # "eoi"
  BY <1>2, Zenon DEF BootSteps
<1>10. int_enabled' \/ sv => int_enabled \/ stack[Depth].saved \/ c[1][1] \in Enabling
  BY <1>2, Zenon DEF Running
<1>11. c[1][1] = "without_interrupts" => ~int_enabled'
  BY <1>2, Zenon
<1>12. Moves(Tail(c), sv)
  BY <1>2, Zenon
<1>13. /\ tss_loaded \/ c[1][1] = "load_tss" => tss_loaded'
       /\ idt # "none" \/ c[1][1] = "load_idt" => idt' # "none"
       /\ pic_initialized \/ c[1][1] = "initialize" => pic_initialized'
       /\ c[1][1] \notin BootSteps => UNCHANGED tables
  BY <1>7, <1>9, Zenon
<1>14. /\ program' = program /\ pending' = pending /\ in_service' \subseteq in_service
       /\ in_service' # {} => c[1][1] # "eoi"
       /\ double_faulted' = double_faulted
  BY <1>9, Zenon
<1>15. Steps(c, sv)
  BY <1>1, <1>6, <1>8, <1>9, <1>10, <1>11, <1>12, <1>13, <1>14, Zenon DEF Steps
<1> QED BY <1>15, TailStep, Zenon

LEMMA SavedType ==
  ASSUME KernelTypeOK
  PROVE  Running.saved \in BOOLEAN /\ int_enabled \in BOOLEAN
<1>1. Running \in ContextType
  BY StackTop, Zenon
<1>2. Running.saved \in BOOLEAN
  BY <1>1, SMT DEF ContextType
<1> QED BY <1>2, Zenon DEF KernelTypeOK

LEMMA WithoutInterruptsStep == ASSUME KernelInv, without_interrupts PROVE KernelInv'
<1>1. At("without_interrupts")
  BY Zenon DEF without_interrupts
<1>2. KernelTypeOK /\ Rest \in Code
  BY <1>1, AtHead, Zenon
<1>3. Moves(Rest, int_enabled)
  BY <1>2, WithoutMoves, Zenon DEF without_interrupts
<1>4. /\ int_enabled \in BOOLEAN /\ int_enabled' \in BOOLEAN /\ ~int_enabled'
  BY <1>2, Zenon DEF without_interrupts, KernelTypeOK
<1>5. /\ UNCHANGED <<program, owner, tables, pending, in_service, double_faulted>>
      /\ machine' # "reset"
  BY <1>2, Zenon DEF without_interrupts, devices, KernelTypeOK
<1>6. "without_interrupts" \notin Enders \cup BootSteps \cup {"lock", "unlock", "eoi"}
  BY Zenon DEF Enders, BootSteps
<1> QED BY <1>1, <1>3, <1>4, <1>5, <1>6, SimpleStep, Zenon

LEMMA HandlerNotAt ==
  ASSUME KernelInv, NEW op, At(op), op \in Enabling \cup Faults \cup BootSteps \cup {"allocated"}
  PROVE  Depth = 1
<1>1. PICK c : c = stack[Depth].code BY Zenon
<1>2. c[1][1] = op /\ 1 \in DOMAIN c /\ (Depth = 1 \/ Depth = 2)
  BY <1>1, AtHead, Zenon
<1>3. Depth = 2 => HandlerCode(c)
  BY <1>1, RunningCode, Zenon
<1>4. Depth = 2 => c[1] \in HandlerInstructions
  BY <1>2, <1>3, HandlerHead, Zenon
<1> QED BY <1>2, <1>4, Zenon DEF HandlerInstructions

LEMMA BaseHead ==
  ASSUME KernelInv, NEW op, At(op), Depth = 1, NEW c, c = stack[1].code
  PROVE  /\ c[1] \in OrdinaryInstructions(program)
         /\ BaseOK(program, c, int_enabled, stack[1].saved, tss_loaded, idt, pic_initialized)
         /\ op \in Enabling \cup Faults =>
              tss_loaded /\ idt # "none" /\ pic_initialized /\ (op \in Enabling => ~Has(c, "initialize"))
<1>1. c[1][1] = op /\ 1 \in DOMAIN c
  BY AtHead, Zenon
<1>2. BaseOK(program, c, int_enabled, stack[1].saved, tss_loaded, idt, pic_initialized)
  BY Zenon DEF KernelInv, BaseInv, Flag
<1>3. c \in Seq(OrdinaryInstructions(program))
  BY <1>2, Zenon DEF BaseOK, Ordinary
<1>4. c[1] \in OrdinaryInstructions(program)
  BY <1>1, <1>3
<1>5. ASSUME c[1][1] \in Enabling \cup Faults
      PROVE  /\ tss_loaded /\ idt # "none" /\ pic_initialized
             /\ c[1][1] \in Enabling => ~Has(c, "initialize")
  BY <1>2, <1>5, BaseBooted, SMT
<1> QED BY <1>1, <1>2, <1>4, <1>5, Zenon

LEMMA HaltAndWait ==
  ASSUME KernelInv, At("enable_and_hlt"), Moves(Do("hlt") \o Rest, Running.saved), int_enabled' = TRUE,
         UNCHANGED <<program, owner, tables, devices, double_faulted, machine>>
  PROVE  KernelInv'
<1>1. Depth = 1
  BY HandlerNotAt, Zenon DEF Enabling
<1>2. PICK c : c = stack[1].code BY Zenon
<1>3. /\ BaseOK(program, c, int_enabled, stack[1].saved, tss_loaded, idt, pic_initialized)
      /\ tss_loaded /\ idt # "none" /\ pic_initialized /\ ~Has(c, "initialize")
  BY <1>1, <1>2, BaseHead, Zenon DEF Enabling
<1>4. /\ c[1][1] = "enable_and_hlt" /\ Rest = Tail(c) /\ KernelTypeOK /\ c \in Code /\ c # <<>>
  BY <1>1, <1>2, AtHead, Zenon
<1>5. BaseOK(program, Rest, TRUE, stack[1].saved, tss_loaded, idt, pic_initialized)
  <2>1. Goes(c, int_enabled, stack[1].saved, tss_loaded, idt, pic_initialized,
             TRUE, stack[1].saved, tss_loaded, idt, pic_initialized)
    BY <1>3, <1>4, Zenon DEF Goes, Enders, Enabling
  <2> QED BY <1>3, <1>4, <2>1, BaseTail, Zenon
<1>6. ~Has(Rest, "initialize")
  <2>1. IsTail(Rest, c)
    BY <1>4, TailIs, Zenon
  <2> QED BY <1>3, <2>1, Zenon DEF IsTail, Has
<1>7. ~(Rest[1][1] = "lock" /\ Rest[1][2] # "ALLOCATOR")
  BY <1>5, Zenon DEF BaseOK
<1>8. Body(program, Do("hlt"))
  BY DoBody, Zenon
<1>9. BaseOK(program, Do("hlt") \o Rest, TRUE, stack[1].saved, tss_loaded, idt, pic_initialized)
  BY <1>3, <1>5, <1>6, <1>7, <1>8, BaseCall, Zenon
<1>10. LockInv'
  <2>1. OnlyBelow
    BY <1>1, <1>2, <1>4, NoLockHeld, Zenon
  <2> QED BY <1>1, <2>1, LocksKept, Zenon DEF Moves
<1>11. /\ tss_loaded' = tss_loaded /\ idt' = idt /\ pic_initialized' = pic_initialized
       /\ pending' = pending /\ in_service' = in_service
  BY Zenon DEF tables, devices
<1>12. Running.saved = stack[1].saved
  BY <1>1, Zenon DEF Running
<1>13. BaseOK(program, Do("hlt") \o Rest, int_enabled', stack[1].saved, tss_loaded', idt', pic_initialized')
  BY <1>9, <1>11, Zenon
<1>14. Moves(Do("hlt") \o Rest, stack[1].saved)
  BY <1>12, Zenon
<1>15. /\ int_enabled' \in BOOLEAN /\ tss_loaded' \in BOOLEAN /\ pic_initialized' \in BOOLEAN
       /\ idt' \in Tables /\ (idt' = "TEST_IDT" => program = "tests/stack_overflow")
       /\ owner' \in [Locks -> {0, 1, 2}] /\ machine' # "reset"
  BY <1>4, <1>11, Zenon DEF KernelTypeOK
<1>16. in_service' = {}
  BY <1>1, <1>11, Zenon DEF KernelInv
<1> QED BY <1>1, <1>10, <1>11, <1>13, <1>14, <1>15, <1>16, BaseMoves, Zenon

LEMMA CatCode == ASSUME NEW c \in Code, NEW d \in Code PROVE c \o d \in Code
  BY DEF Code

LEMMA SetFlagStep == ASSUME KernelInv, set_flag PROVE KernelInv'
<1>1. /\ UNCHANGED <<program, owner, tables, devices, executing, double_faulted, machine>>
      /\ UNCHANGED <<program, owner, tables, pending, in_service, double_faulted>>
  BY Zenon DEF set_flag, devices
<1>2. KernelTypeOK /\ machine' # "reset" /\ Running.saved \in BOOLEAN
  BY <1>1, SavedType, Zenon DEF KernelInv, KernelTypeOK
<1>3. ASSUME NEW op, At(op), Continue(Rest) PROVE Moves(Rest, Running.saved)
  BY <1>2, <1>3, AtHead, ContinueMoves, Zenon
<1>4. CASE At("restore") /\ int_enabled' = Running.saved /\ Continue(Rest)
  <2>1. "restore" \notin Enders \cup BootSteps \cup {"lock", "unlock", "eoi"}
    BY Zenon DEF Enders, BootSteps
  <2> QED BY <1>1, <1>2, <1>3, <1>4, <2>1, SimpleStep, SMT
<1>5. CASE At("enable") /\ int_enabled' = TRUE /\ Continue(Rest)
  <2>1. "enable" \notin Enders \cup BootSteps \cup {"lock", "unlock", "eoi"} /\ "enable" \in Enabling
    BY Zenon DEF Enders, BootSteps, Enabling
  <2> QED BY <1>1, <1>2, <1>3, <1>5, <2>1, SimpleStep, SMT
<1>6. CASE At("disable") /\ int_enabled' = FALSE /\ Continue(Rest)
  <2>1. "disable" \notin Enders \cup BootSteps \cup {"lock", "unlock", "eoi"}
    BY Zenon DEF Enders, BootSteps
  <2>2. Moves(Rest, Running.saved) /\ At("disable")
    BY <1>3, <1>6, Zenon
  <2>3. int_enabled' \in BOOLEAN /\ ~int_enabled'
    BY <1>6, Zenon
  <2> QED BY <1>1, <1>2, <2>1, <2>2, <2>3, SimpleStep, SMT
<1>7. CASE At("enable_and_hlt") /\ int_enabled' = TRUE /\ Continue(Do("hlt") \o Rest)
  <2>1. Rest \in Code
    BY <1>7, AtHead, Zenon
  <2>2. Do("hlt") \in Code
    BY DoBody, BodyCode, Zenon
  <2>3. Do("hlt") \o Rest \in Code
    BY <2>1, <2>2, CatCode, Zenon
  <2>4. Moves(Do("hlt") \o Rest, Running.saved)
    BY <1>2, <1>7, <2>3, ContinueMoves, Zenon
  <2> QED BY <1>1, <1>7, <2>4, HaltAndWait, Zenon
<1> QED BY <1>4, <1>5, <1>6, <1>7, Zenon DEF set_flag

LEMMA ReadPortStep == ASSUME KernelInv, read_port PROVE KernelInv'
<1>1. At("read_port") /\ Continue(Rest)
  BY Zenon DEF read_port
<1>2. UNCHANGED <<program, owner, tables, pending, in_service, double_faulted>> /\ int_enabled' = int_enabled
  BY Zenon DEF read_port
<1>3. KernelTypeOK /\ machine' # "reset" /\ Running.saved \in BOOLEAN /\ int_enabled' \in BOOLEAN
  BY <1>2, SavedType, Zenon DEF KernelInv, KernelTypeOK, read_port
<1>4. Moves(Rest, Running.saved)
  BY <1>1, <1>3, AtHead, ContinueMoves, Zenon
<1>5. "read_port" \notin Enders \cup BootSteps \cup {"lock", "unlock", "eoi"}
  BY Zenon DEF Enders, BootSteps
<1> QED BY <1>1, <1>2, <1>3, <1>4, <1>5, SimpleStep, SMT

LEMMA ExitStep == ASSUME KernelInv, exit PROVE KernelInv'
<1>1. At("exit_qemu") /\ Continue(Rest) /\ machine' = Argument
  BY Zenon DEF exit
<1>2. UNCHANGED <<program, owner, tables, pending, in_service, double_faulted>> /\ int_enabled' = int_enabled
  BY Zenon DEF exit, devices
<1>3. KernelTypeOK /\ Running.saved \in BOOLEAN /\ int_enabled' \in BOOLEAN
  BY <1>2, SavedType, Zenon DEF KernelInv, KernelTypeOK
<1>4. machine' # "reset"
  <2>1. PICK c : c = stack[Depth].code BY Zenon
  <2>2. Paired(c) /\ 1 \in DOMAIN c /\ c[1][1] = "exit_qemu" /\ Argument = c[1][2]
    BY <1>1, <2>1, AtHead, Zenon
  <2> QED BY <1>1, <2>2, Zenon DEF Paired
<1>5. Moves(Rest, Running.saved)
  BY <1>1, <1>3, AtHead, ContinueMoves, Zenon
<1>6. "exit_qemu" \notin Enders \cup BootSteps \cup {"lock", "unlock", "eoi"}
  BY Zenon DEF Enders, BootSteps
<1> QED BY <1>1, <1>2, <1>3, <1>4, <1>5, <1>6, SimpleStep, SMT

LEMMA LockTaken ==
  ASSUME KernelInv, At("lock"), NEW sv, Moves(Rest, sv), int_enabled' = int_enabled,
         owner' = [owner EXCEPT ![Argument] = Depth]
  PROVE  LockInv' /\ owner' \in [Locks -> {0, 1, 2}]
<1>1. PICK c : c = stack[Depth].code BY Zenon
<1>2. PICK l : l = c[1][2] BY Zenon
<1>3. /\ c[1][1] = "lock" /\ Rest = Tail(c) /\ Argument = l /\ KernelTypeOK /\ Paired(c)
      /\ c \in Code /\ c # <<>> /\ 1 \in DOMAIN c /\ (Depth = 1 \/ Depth = 2)
  BY <1>1, <1>2, AtHead, Zenon
<1>4. l \in Locks /\ Gives(c, 1 + 1, l)
  BY <1>2, <1>3, Zenon DEF Paired
<1>5. Gives(Tail(c), 1, l)
  <2>1. 1 \in Nat \ {0}
    OBVIOUS
  <2> QED BY <1>3, <1>4, <2>1, TailGives, Zenon
<1>6. OnlyBelow
  BY <1>1, <1>3, NoLockHeld, Zenon
<1>7. Len(stack') = Depth /\ stack'[Depth].code = Tail(c) /\ (Depth = 2 => stack'[1] = stack[1])
  BY <1>3, Zenon DEF Moves
<1>8. IF l = "ALLOCATOR" THEN Depth = 1 ELSE ~int_enabled
  <2>1. CASE Depth = 1
    <3>1. BaseOK(program, c, int_enabled, stack[1].saved, tss_loaded, idt, pic_initialized)
      BY <1>1, <2>1, Zenon DEF KernelInv, BaseInv, Flag
    <3> QED BY <1>2, <1>3, <2>1, <3>1, Zenon DEF BaseOK
  <2>2. CASE Depth = 2
    <3>1. HandlerInv /\ HandlerCode(c)
      BY <1>1, <2>2, Zenon DEF KernelInv, HandlerInv
    <3>2. c[1] \in HandlerInstructions
      BY <1>3, <3>1, HandlerHead, Zenon
    <3> QED BY <1>2, <1>3, <3>1, <3>2, Zenon DEF HandlerInv, HandlerInstructions
  <2> QED BY <1>3, <2>1, <2>2, Zenon
<1>9. owner \in [Locks -> {0, 1, 2}] /\ Depth \in {0, 1, 2}
  BY <1>3, Zenon DEF KernelTypeOK
<1>10. /\ owner' \in [Locks -> {0, 1, 2}] /\ owner'[l] = Depth
       /\ \A m \in Locks : m # l => owner'[m] = owner[m]
  BY <1>3, <1>4, <1>9
<1>11. Depth \in 1 .. Depth /\ (Depth = 2 => 1 \in 1 .. Depth)
  BY <1>3
<1>12. ASSUME NEW m \in Locks, owner'[m] # 0
       PROVE  /\ owner'[m] \in 1 .. Len(stack')
              /\ Gives(stack'[owner'[m]].code, 1, m)
              /\ IF m = "ALLOCATOR" THEN owner'[m] = 1
                                    ELSE owner'[m] = Len(stack') /\ ~int_enabled'
  <2>1. CASE m = l
    BY <1>5, <1>7, <1>8, <1>10, <1>11, <2>1, Zenon
  <2>2. CASE m # l
    <3>1. m = "ALLOCATOR" /\ Depth = 2 /\ owner'[m] = 1 /\ Gives(stack[1].code, 1, m)
      BY <1>6, <1>10, <1>12, <2>2, Zenon DEF OnlyBelow
    <3> QED BY <1>7, <1>11, <3>1, Zenon
  <2> QED BY <2>1, <2>2, Zenon
<1> QED BY <1>10, <1>12, Zenon DEF LockInv, Depth

LEMMA LockGiven ==
  ASSUME KernelInv, At("unlock"), NEW sv, Moves(Rest, sv), int_enabled' = int_enabled,
         owner' = [owner EXCEPT ![Argument] = 0]
  PROVE  LockInv' /\ owner' \in [Locks -> {0, 1, 2}]
<1>1. PICK c : c = stack[Depth].code BY Zenon
<1>3. /\ c[1][1] = "unlock" /\ Argument = c[1][2] /\ KernelTypeOK /\ (Depth = 1 \/ Depth = 2)
  BY <1>1, AtHead, Zenon
<1>7. Len(stack') = Depth /\ (Depth = 2 => stack'[1] = stack[1])
  BY Zenon DEF Moves
<1>9. owner \in [Locks -> {0, 1, 2}]
  BY <1>3, Zenon DEF KernelTypeOK
<1>10. /\ owner' \in [Locks -> {0, 1, 2}]
       /\ \A m \in Locks : owner'[m] # 0 => m # Argument /\ owner'[m] = owner[m]
  BY <1>9, Zenon
<1>11. Depth = 2 => 1 \in 1 .. Depth
  OBVIOUS
<1>12. ASSUME NEW m \in Locks, owner'[m] # 0
       PROVE  /\ owner'[m] \in 1 .. Len(stack')
              /\ Gives(stack'[owner'[m]].code, 1, m)
              /\ m = "ALLOCATOR" /\ owner'[m] = 1
  <2>1. m # Argument /\ owner'[m] = owner[m] /\ owner[m] # 0
    BY <1>10, <1>12, Zenon
  <2>2. /\ Gives(stack[owner[m]].code, 1, m)
        /\ IF m = "ALLOCATOR" THEN owner[m] = 1 ELSE owner[m] = Depth /\ ~int_enabled
    BY <2>1, Zenon DEF KernelInv, LockInv
  <2>3. owner[m] # Depth
    BY <1>1, <1>3, <2>1, <2>2, GivesFirst, Zenon
  <2>4. m = "ALLOCATOR" /\ owner[m] = 1 /\ Depth = 2
    BY <1>3, <2>2, <2>3, Zenon
  <2> QED BY <1>7, <1>11, <2>1, <2>2, <2>4, Zenon
<1> QED BY <1>10, <1>12, Zenon DEF LockInv, Depth

LEMMA LockStep == ASSUME KernelInv, lock PROVE KernelInv'
<1>1. /\ UNCHANGED <<program, int_enabled, tables, devices, executing, double_faulted, machine>>
      /\ Continue(Rest)
  BY Zenon DEF lock
<1>2. PICK c : c = stack[Depth].code BY Zenon
<1>3. At("lock") \/ At("unlock")
  BY Zenon DEF lock
<1>4. /\ Rest = Tail(c) /\ Rest \in Code /\ KernelTypeOK
      /\ c[1][1] \in {"lock", "unlock"}
  BY <1>2, <1>3, AtHead, Zenon
<1>5. Running.saved \in BOOLEAN /\ int_enabled \in BOOLEAN /\ Running.saved = stack[Depth].saved
  BY <1>4, SavedType, Zenon DEF Running
<1>6. Moves(Rest, Running.saved)
  BY <1>1, <1>4, ContinueMoves, Zenon
<1>7. LockInv' /\ owner' \in [Locks -> {0, 1, 2}]
  BY <1>1, <1>6, LockTaken, LockGiven, Zenon DEF lock
<1>8. /\ tss_loaded' = tss_loaded /\ idt' = idt /\ pic_initialized' = pic_initialized
      /\ pending' = pending /\ in_service' = in_service /\ program' = program
      /\ int_enabled' = int_enabled /\ machine' = machine /\ double_faulted' = double_faulted
      /\ UNCHANGED tables
  BY <1>1, Zenon DEF tables, devices
<1>9. /\ tss_loaded' \in BOOLEAN /\ pic_initialized' \in BOOLEAN
      /\ idt' \in Tables /\ (idt' = "TEST_IDT" => program = "tests/stack_overflow")
      /\ machine' # "reset" /\ int_enabled' \in BOOLEAN
  BY <1>4, <1>8, Zenon DEF KernelTypeOK
<1>10. /\ c[1][1] \notin Enders /\ c[1][1] \notin BootSteps /\ c[1][1] # "without_interrupts"
       /\ c[1][1] # "load_tss" /\ c[1][1] # "load_idt"
       /\ c[1][1] # "initialize" /\ c[1][1] # "eoi"
  BY <1>4, Zenon DEF Enders, BootSteps
<1>11. Steps(c, Running.saved)
  BY <1>2, <1>4, <1>5, <1>6, <1>7, <1>8, <1>9, <1>10, Zenon DEF Steps
<1> QED BY <1>11, TailStep, Zenon

LEMMA LoadTableStep == ASSUME KernelInv, load_table PROVE KernelInv'
<1>1. /\ UNCHANGED <<program, int_enabled, owner, devices, executing, double_faulted, machine>>
      /\ Continue(Rest)
  BY Zenon DEF load_table
<1>2. PICK c : c = stack[Depth].code BY Zenon
<1>3. \/ At("load_tss") /\ tss_loaded' = TRUE /\ UNCHANGED <<idt, pic_initialized>>
      \/ At("load_idt") /\ idt' = Argument /\ UNCHANGED <<tss_loaded, pic_initialized>>
      \/ At("initialize") /\ pic_initialized' = TRUE /\ UNCHANGED <<tss_loaded, idt>>
  BY Zenon DEF load_table
<1>4. /\ Rest = Tail(c) /\ Rest \in Code /\ KernelTypeOK
      /\ c[1][1] \in BootSteps
  BY <1>2, <1>3, AtHead, Zenon DEF BootSteps
<1>5. Running.saved \in BOOLEAN /\ int_enabled \in BOOLEAN /\ Running.saved = stack[Depth].saved
  BY <1>4, SavedType, Zenon DEF Running
<1>6. Moves(Rest, Running.saved)
  BY <1>1, <1>4, ContinueMoves, Zenon
<1>7. Depth = 1
  BY <1>3, HandlerNotAt, Zenon DEF BootSteps
<1>8. At("load_idt") => Argument \in Tables \ {"none"} /\ (Argument = "TEST_IDT" => program = "tests/stack_overflow")
  <2>1. ASSUME At("load_idt") PROVE c[1] \in OrdinaryInstructions(program) /\ c[1][1] = "load_idt" /\ Argument = c[1][2]
    BY <1>2, <1>7, <2>1, BaseHead, AtHead, Zenon
  <2> QED BY <2>1, Zenon DEF OrdinaryInstructions, Tables
<1>9. /\ c[1][1] = "load_tss" => At("load_tss")
      /\ c[1][1] = "load_idt" => At("load_idt")
      /\ c[1][1] = "initialize" => At("initialize")
  BY <1>2, <1>3, AtHead, Zenon
<1>10. /\ tss_loaded \in BOOLEAN /\ pic_initialized \in BOOLEAN
       /\ idt \in Tables /\ (idt = "TEST_IDT" => program = "tests/stack_overflow")
       /\ owner \in [Locks -> {0, 1, 2}] /\ machine # "reset"
  BY <1>4, Zenon DEF KernelTypeOK
<1>11. /\ tss_loaded' \in BOOLEAN /\ pic_initialized' \in BOOLEAN
       /\ idt' \in Tables /\ (idt' = "TEST_IDT" => program = "tests/stack_overflow")
  BY <1>3, <1>8, <1>10, Zenon
<1>12. /\ tss_loaded \/ c[1][1] = "load_tss" => tss_loaded'
       /\ idt # "none" \/ c[1][1] = "load_idt" => idt' # "none"
       /\ pic_initialized \/ c[1][1] = "initialize" => pic_initialized'
  <2>1. CASE At("load_tss") /\ tss_loaded' = TRUE /\ UNCHANGED <<idt, pic_initialized>>
    <3>1. c[1][1] = "load_tss"
      BY <1>2, <2>1, AtHead, Zenon
    <3> QED BY <2>1, <3>1, Zenon
  <2>2. CASE At("load_idt") /\ idt' = Argument /\ UNCHANGED <<tss_loaded, pic_initialized>>
    <3>1. c[1][1] = "load_idt"
      BY <1>2, <2>2, AtHead, Zenon
    <3> QED BY <1>8, <2>2, <3>1, Zenon
  <2>3. CASE At("initialize") /\ pic_initialized' = TRUE /\ UNCHANGED <<tss_loaded, idt>>
    <3>1. c[1][1] = "initialize"
      BY <1>2, <2>3, AtHead, Zenon
    <3> QED BY <2>3, <3>1, Zenon
  <2> QED BY <1>3, <2>1, <2>2, <2>3, Zenon
<1>13. /\ c[1][1] \notin Enders /\ c[1][1] # "unlock" /\ c[1][1] # "eoi"
       /\ c[1][1] # "without_interrupts"
  BY <1>4, Zenon DEF BootSteps, Enders
<1>14. LockInv'
  BY <1>1, <1>2, <1>4, <1>6, <1>13, LocksMoved, Zenon
<1>15. /\ pending' = pending /\ in_service' = in_service /\ program' = program
       /\ int_enabled' = int_enabled /\ double_faulted' = double_faulted
       /\ owner' \in [Locks -> {0, 1, 2}] /\ machine' # "reset" /\ int_enabled' \in BOOLEAN
  BY <1>1, <1>5, <1>10, Zenon DEF devices
<1>16. Steps(c, Running.saved)
  BY <1>2, <1>4, <1>5, <1>6, <1>11, <1>12, <1>13, <1>14, <1>15, Zenon DEF Steps
<1> QED BY <1>16, TailStep, Zenon

LEMMA EoiStep == ASSUME KernelInv, eoi PROVE KernelInv'
<1>1. /\ UNCHANGED <<program, int_enabled, owner, tables, pending, scancode_ready,
                     executing, double_faulted, machine>>
      /\ At("eoi") /\ Continue(Rest)
      /\ in_service' = {l \in in_service : \E k \in in_service : k < l}
  BY Zenon DEF eoi
<1>2. PICK c : c = stack[Depth].code BY Zenon
<1>4. /\ Rest = Tail(c) /\ Rest \in Code /\ KernelTypeOK /\ c[1][1] = "eoi"
      /\ (Depth = 1 \/ Depth = 2)
  BY <1>1, <1>2, AtHead, Zenon
<1>5. Running.saved \in BOOLEAN /\ int_enabled \in BOOLEAN /\ Running.saved = stack[Depth].saved
  BY <1>4, SavedType, Zenon DEF Running
<1>6. Moves(Rest, Running.saved)
  BY <1>1, <1>4, ContinueMoves, Zenon
<1>7. in_service' = {}
  <2>1. CASE Depth = 1
    <3>1. in_service = {}
      BY <2>1, Zenon DEF KernelInv
    <3> QED BY <1>1, <3>1, Zenon
  <2>2. CASE Depth = 2
    <3>1. in_service \subseteq {stack[2].line} \cap Lines
      BY <2>2, Zenon DEF KernelInv, HandlerInv
    <3>2. \A l \in in_service : \A k \in in_service : k = l /\ l \in {0, 1}
      BY <3>1, Zenon DEF Lines, Timer, Keyboard
    <3>3. \A l \in {0, 1} : ~(l < l)
      OBVIOUS
    <3>4. \A l \in in_service : ~\E k \in in_service : k < l
      BY <3>2, <3>3, Zenon
    <3> QED BY <1>1, <3>4, Zenon
  <2> QED BY <1>4, <2>1, <2>2, Zenon
<1>8. LockInv'
  BY <1>1, <1>2, <1>4, <1>6, LocksMoved, Zenon
<1>9. /\ tss_loaded' = tss_loaded /\ idt' = idt /\ pic_initialized' = pic_initialized
      /\ pending' = pending /\ in_service' \subseteq in_service /\ program' = program
      /\ int_enabled' = int_enabled /\ machine' = machine /\ double_faulted' = double_faulted
      /\ UNCHANGED tables
  BY <1>1, <1>7, Zenon DEF tables
<1>10. /\ tss_loaded' \in BOOLEAN /\ pic_initialized' \in BOOLEAN
       /\ idt' \in Tables /\ (idt' = "TEST_IDT" => program = "tests/stack_overflow")
       /\ machine' # "reset" /\ int_enabled' \in BOOLEAN /\ owner' \in [Locks -> {0, 1, 2}]
  BY <1>1, <1>4, <1>9, Zenon DEF KernelTypeOK
<1>11. /\ c[1][1] \notin Enders /\ c[1][1] \notin BootSteps /\ c[1][1] # "without_interrupts"
       /\ c[1][1] # "load_tss" /\ c[1][1] # "load_idt" /\ c[1][1] # "initialize"
  BY <1>4, Zenon DEF Enders, BootSteps
<1>12. Steps(c, Running.saved)
  BY <1>2, <1>4, <1>5, <1>6, <1>7, <1>8, <1>9, <1>10, <1>11, Zenon DEF Steps
<1> QED BY <1>12, TailStep, Zenon

(* The running code is replaced, or a piece put before the rest of it. *)
LEMMA Redirected ==
  ASSUME KernelInv, NEW op, At(op), op \notin {"unlock", "eoi", "initialize"},
         NEW d, Moves(d, Running.saved),
         Depth = 1 => BaseOK(program, d, int_enabled, stack[1].saved, tss_loaded, idt, pic_initialized),
         Depth = 2 => HandlerCode(d) /\ Ends(d) /\ (in_service # {} => EndsInterrupt(d)),
         UNCHANGED <<program, int_enabled, owner, tables, devices, double_faulted, machine>>
  PROVE  KernelInv'
<1>1. PICK c : c = stack[Depth].code BY Zenon
<1>2. c[1][1] = op /\ KernelTypeOK /\ (Depth = 1 \/ Depth = 2)
  BY <1>1, AtHead, Zenon
<1>3. /\ tss_loaded' = tss_loaded /\ idt' = idt /\ pic_initialized' = pic_initialized
      /\ pending' = pending /\ in_service' = in_service /\ program' = program
      /\ int_enabled' = int_enabled /\ machine' = machine /\ double_faulted' = double_faulted
      /\ UNCHANGED <<program, tables>> /\ owner' = owner
  BY Zenon DEF tables, devices
<1>4. /\ tss_loaded' \in BOOLEAN /\ pic_initialized' \in BOOLEAN
      /\ idt' \in Tables /\ (idt' = "TEST_IDT" => program = "tests/stack_overflow")
      /\ machine' # "reset" /\ int_enabled' \in BOOLEAN /\ owner' \in [Locks -> {0, 1, 2}]
  BY <1>2, <1>3, Zenon DEF KernelTypeOK
<1>5. LockInv'
  <2>1. OnlyBelow
    BY <1>1, <1>2, NoLockHeld, Zenon
  <2>2. Depth \in {1, 2}
    BY <1>2, Zenon
  <2> QED BY <1>3, <2>1, <2>2, LocksKept, Zenon DEF Moves
<1>6. CASE Depth = 1
  <2>1. in_service' = {}
    BY <1>3, <1>6, Zenon DEF KernelInv
  <2>2. Moves(d, stack[1].saved)
    BY <1>6, Zenon DEF Running
  <2>3. BaseOK(program, d, int_enabled', stack[1].saved, tss_loaded', idt', pic_initialized')
    BY <1>3, <1>6, Zenon
  <2> QED BY <1>3, <1>4, <1>5, <1>6, <2>1, <2>2, <2>3, BaseMoves, Zenon
<1>7. CASE Depth = 2
  <2>1. HandlerInv
    BY <1>7, Zenon DEF KernelInv
  <2>2. Running.saved = FALSE /\ int_enabled = FALSE
    <3>1. ~Running.saved /\ ~int_enabled
      BY <1>7, <2>1, Zenon DEF HandlerInv, Running
    <3> QED BY <1>2, <3>1, SavedType, Zenon
  <2>3. Moves(d, FALSE) /\ int_enabled' = FALSE
    BY <1>3, <2>2, Zenon
  <2>4. in_service' \subseteq in_service /\ (in_service' # {} => EndsInterrupt(d))
    BY <1>3, <1>7, Zenon
  <2> QED BY <1>3, <1>4, <1>5, <1>7, <2>3, <2>4, HandlerMoves, Zenon
<1> QED BY <1>2, <1>6, <1>7, Zenon

LEMMA PanicStep ==
  ASSUME KernelInv, NEW op, At(op), op \notin {"unlock", "eoi", "initialize"}, Continue(panic(program)),
         UNCHANGED <<program, int_enabled, owner, tables, devices, double_faulted, machine>>
  PROVE  KernelInv'
<1>1. PICK d : d = panic(program) BY Zenon
<1>2. Plain(program, d) /\ Ends(d)
  BY <1>1, PanicPlain, Zenon
<1>3. Body(program, d) /\ HandlerCode(d) /\ d \in Code
  BY <1>2, BodyCode, Zenon DEF Plain
<1>4. EndsInterrupt(d)
  BY <1>3, PlainNoReturn, Zenon
<1>5. Moves(d, Running.saved)
  BY <1>1, <1>3, ContinueMoves, Zenon DEF KernelInv
<1>6. ASSUME Depth = 1
      PROVE  BaseOK(program, d, int_enabled, stack[1].saved, tss_loaded, idt, pic_initialized)
  <2>1. int_enabled \/ stack[1].saved => tss_loaded /\ idt # "none" /\ pic_initialized
    <3>1. BaseOK(program, stack[1].code, int_enabled, stack[1].saved, tss_loaded, idt, pic_initialized)
      BY <1>6, Zenon DEF KernelInv, BaseInv, Flag
    <3> QED BY <3>1, Zenon DEF BaseOK
  <2> QED BY <1>2, <2>1, BaseReplaced, SMT
<1> QED BY <1>2, <1>3, <1>4, <1>5, <1>6, Redirected, Zenon

LEMMA AddScancodeStep == ASSUME KernelInv, add_scancode PROVE KernelInv'
<1>1. /\ At("add_scancode")
      /\ UNCHANGED <<program, int_enabled, owner, tables, devices, executing, double_faulted, machine>>
      /\ UNCHANGED <<program, owner, tables, pending, in_service, double_faulted>>
      /\ UNCHANGED <<program, int_enabled, owner, tables, devices, double_faulted, machine>>
  BY Zenon DEF add_scancode, devices
<1>2. PICK c : c = stack[Depth].code BY Zenon
<1>3. /\ Rest = Tail(c) /\ Rest \in Code /\ KernelTypeOK /\ c[1][1] = "add_scancode"
      /\ (Depth = 1 \/ Depth = 2) /\ c \in Code /\ c # <<>>
  BY <1>1, <1>2, AtHead, Zenon
<1>4. CASE Continue(Rest)
  <2>1. Moves(Rest, Running.saved) /\ Running.saved \in BOOLEAN /\ int_enabled' \in BOOLEAN
    BY <1>1, <1>3, <1>4, ContinueMoves, SavedType, Zenon
  <2>2. "add_scancode" \notin Enders \cup BootSteps \cup {"lock", "unlock", "eoi"}
    BY Zenon DEF Enders, BootSteps
  <2>3. machine' # "reset" /\ int_enabled' = int_enabled
    BY <1>1, <1>3, Zenon DEF KernelTypeOK
  <2> QED BY <1>1, <2>1, <2>2, <2>3, SimpleStep, SMT
<1>5. CASE Continue(panic(program))
  BY <1>1, <1>5, PanicStep, Zenon
<1>6. CASE Continue(print("WRITER") \o Rest)
  <2>1. Depth = 2
    <3>1. Depth = 1 => c[1] \in OrdinaryInstructions(program)
      BY <1>1, <1>2, BaseHead, Zenon
    <3> QED BY <1>3, <3>1, Zenon DEF OrdinaryInstructions
  <2>2. HandlerInv /\ HandlerCode(c) /\ Ends(c)
    BY <1>2, <2>1, Zenon DEF KernelInv, HandlerInv
  <2>3. HandlerCode(Rest) /\ Ends(Rest)
    BY <1>3, <2>2, TailHandler, TailEnds, Zenon
  <2>4. in_service # {} => EndsInterrupt(Rest)
    <3>1. in_service # {} => EndsInterrupt(c)
      BY <1>2, <2>1, <2>2, Zenon DEF HandlerInv
    <3> QED BY <1>3, <3>1, TailEndsInterrupt, Zenon
  <2>5. PICK d : d = print("WRITER") BY Zenon
  <2>6. HandlerCode(d) /\ d \in Code /\ NoReturn(d)
    BY <2>5, Prints, PlainNoReturn, BodyCode, Zenon
  <2>7. /\ HandlerCode(d \o Rest) /\ Ends(d \o Rest)
        /\ in_service # {} => EndsInterrupt(d \o Rest)
    BY <1>3, <2>3, <2>4, <2>6, CatHandler, CatEnds, CatEndsInterrupt, Zenon
  <2>8. Moves(d \o Rest, Running.saved)
    BY <1>3, <1>6, <2>5, <2>6, CatCode, ContinueMoves, Zenon
  <2>9. 2 # 1
    OBVIOUS
  <2> QED BY <1>1, <2>1, <2>7, <2>8, <2>9, Redirected, Zenon
<1> QED BY <1>4, <1>5, <1>6, Zenon DEF add_scancode

LEMMA ExecutorPieces == ASSUME NEW p, NEW d \in executor_run PROVE Body(p, d)
<1>1. Body(p, print("WRITER")) /\ Body(p, print("bin WRITER"))
  BY Prints, Zenon
<1>2. Body(p, use_heap \o Do("allocated"))
  BY HeapBody, DoBody, CatBody, Zenon
<1>3. Body(p, Do("disable")) /\ Body(p, Do("enable")) /\ Body(p, Do("enable_and_hlt"))
  BY DoBody, Zenon
<1>4. Body(p, Do("disable") \o Do("enable")) /\ Body(p, sleep_if_idle)
  BY <1>3, CatBody, Zenon DEF sleep_if_idle
<1> QED BY <1>1, <1>2, <1>4, Zenon DEF executor_run

LEMMA ExecutorRunStep == ASSUME KernelInv, call_executor_run PROVE KernelInv'
<1>1. /\ At("executor_run")
      /\ UNCHANGED <<program, int_enabled, owner, tables, devices, double_faulted, machine>>
  BY Zenon DEF call_executor_run
<1>2. PICK d \in executor_run : Continue(d \o Running.code)
  BY Zenon DEF call_executor_run
<1>3. Depth = 1
  BY <1>1, HandlerNotAt, Zenon DEF Enabling
<1>4. PICK c : c = stack[Depth].code BY Zenon
<1>5. c[1][1] = "executor_run" /\ c \in Code /\ KernelTypeOK /\ c = Running.code
  <2>1. c[1][1] = "executor_run" /\ c \in Code /\ KernelTypeOK
    BY <1>1, <1>4, AtHead, Zenon
  <2> QED BY <1>4, <2>1, Zenon DEF Running
<1>6. /\ BaseOK(program, c, int_enabled, stack[1].saved, tss_loaded, idt, pic_initialized)
      /\ tss_loaded /\ idt # "none" /\ pic_initialized /\ ~Has(c, "initialize")
  BY <1>1, <1>3, <1>4, BaseHead, Zenon DEF Enabling
<1>7. Body(program, d) /\ d \in Code
  BY ExecutorPieces, BodyCode, Zenon
<1>8. ~(c[1][1] = "lock" /\ c[1][2] # "ALLOCATOR")
  BY <1>5, Zenon
<1>9. BaseOK(program, d \o c, int_enabled, stack[1].saved, tss_loaded, idt, pic_initialized)
  BY <1>6, <1>7, <1>8, BaseCall, Zenon
<1>10. Moves(d \o c, Running.saved)
  BY <1>2, <1>5, <1>7, CatCode, ContinueMoves, Zenon
<1>11. 1 # 2
  OBVIOUS
<1> QED BY <1>1, <1>3, <1>9, <1>10, <1>11, Redirected, Zenon

LEMMA AllocErrorStep == ASSUME KernelInv, alloc_error_handler PROVE KernelInv'
<1>1. /\ UNCHANGED <<program, owner, tables, pending, in_service, double_faulted>>
      /\ UNCHANGED <<program, int_enabled, owner, tables, devices, double_faulted, machine>>
  BY Zenon DEF alloc_error_handler, devices
<1>2. CASE At("allocated") /\ Continue(Rest)
  <2>1. KernelTypeOK /\ Rest \in Code
    BY <1>2, AtHead, Zenon
  <2>2. Moves(Rest, Running.saved) /\ Running.saved \in BOOLEAN /\ int_enabled' \in BOOLEAN
    BY <1>1, <1>2, <2>1, ContinueMoves, SavedType, Zenon
  <2>3. "allocated" \notin Enders \cup BootSteps \cup {"lock", "unlock", "eoi"}
    BY Zenon DEF Enders, BootSteps
  <2>4. machine' # "reset" /\ int_enabled' = int_enabled
    BY <1>1, <2>1, Zenon DEF KernelTypeOK
  <2> QED BY <1>1, <1>2, <2>2, <2>3, <2>4, SimpleStep, SMT
<1>3. CASE At("allocated") /\ Continue(panic(program))
  BY <1>1, <1>3, PanicStep, Zenon
<1>4. CASE At("panic") /\ Continue(panic(program))
  BY <1>1, <1>4, PanicStep, Zenon
<1> QED BY <1>2, <1>3, <1>4, Zenon DEF alloc_error_handler

-----------------------------------------------------------------------------
(* Interrupts and exceptions *)
Pushes(rest, h, line) ==
  /\ stack' \in Seq(ContextType) /\ Len(stack') = 2
  /\ stack'[1].code = rest /\ stack'[1].saved = stack[1].saved
  /\ stack'[2].code = h /\ stack'[2].line = line
  /\ stack'[2].iflag = int_enabled /\ stack'[2].saved = FALSE

IsPushed(a, S, r, h) == a \in Seq(S) /\ Len(a) = 2 /\ a[1] = r /\ a[2] = h

LEMMA AppendedLast ==
  ASSUME NEW S, NEW s \in Seq(S), NEW h \in S
  PROVE  Append(s, h)[Len(s) + 1] = h
  OBVIOUS

LEMMA Appended ==
  ASSUME NEW S, NEW s \in Seq(S), Len(s) = 1, NEW h \in S
  PROVE  IsPushed(Append(s, h), S, s[1], h)
<1>1. Append(s, h) \in Seq(S)
  OBVIOUS
<1>2. Len(Append(s, h)) = Len(s) + 1 /\ 1 + 1 = 2
  OBVIOUS
<1>3. 1 \in 1 .. Len(s)
  OBVIOUS
<1>4. Append(s, h)[1] = s[1]
  BY <1>3
<1>5. Append(s, h)[Len(s) + 1] = h
  BY AppendedLast, Zenon
<1> QED BY <1>1, <1>2, <1>4, <1>5, Zenon DEF IsPushed

LEMMA Pushed ==
  ASSUME NEW S, NEW q \in Seq(S), Len(q) = 1, NEW r \in S, NEW h \in S
  PROVE  IsPushed(Append([q EXCEPT ![1] = r], h), S, r, h)
<1>1. PICK s : s = [q EXCEPT ![1] = r] BY Zenon
<1>2. s \in Seq(S) /\ Len(s) = 1 /\ s[1] = r
  BY <1>1
<1> QED BY <1>1, <1>2, Appended, Zenon

LEMMA EnterPushes ==
  ASSUME KernelTypeOK, Depth = 1, NEW rest \in Code, NEW h \in Code, NEW line \in Lines \cup {NoLine},
         stack' = Append([stack EXCEPT ![Depth].code = rest], Context(h, line))
  PROVE  Pushes(rest, h, line)
<1>1. stack \in Seq(ContextType) /\ Len(stack) = 1 /\ int_enabled \in BOOLEAN
  BY Zenon DEF KernelTypeOK, Depth
<1>2. PICK r : r = [stack[1] EXCEPT !.code = rest] BY Zenon
<1>3. stack[1] \in ContextType
  BY StackTop, Zenon
<1>4. r \in ContextType /\ r.code = rest /\ r.saved = stack[1].saved
  BY <1>2, <1>3 DEF ContextType
<1>5. PICK k : k = Context(h, line) BY Zenon
<1>6. /\ k \in ContextType /\ k.code = h /\ k.line = line /\ k.iflag = int_enabled
      /\ k.saved = FALSE
  BY <1>1, <1>5 DEF ContextType, Context
<1>7. stack' = Append([stack EXCEPT ![1] = r], k)
  BY <1>2, <1>5, Zenon
<1>8. stack' \in Seq(ContextType) /\ Len(stack') = 2 /\ stack'[1] = r /\ stack'[2] = k
  <2>1. PICK a : a = Append([stack EXCEPT ![1] = r], k) BY Zenon
  <2>2. r \in ContextType /\ k \in ContextType
    BY <1>4, <1>6, Zenon
  <2>3. IsPushed(a, ContextType, r, k)
    BY <1>1, <2>1, <2>2, Pushed, Zenon
  <2>4. stack' = a
    BY <1>7, <2>1, Zenon
  <2> QED BY <2>3, <2>4, Zenon DEF IsPushed
<1> QED BY <1>4, <1>6, <1>8, Zenon DEF Pushes

(* The processor finds a handler for each vector that is used: its own or, *)
(* in TEST_IDT, the one for double faults.                                 *)
Vectors == {Breakpoint, DoubleFault, PageFault, 32, 33}

Enters(vector, line, rest, h) ==
  /\ Pushes(rest, h, line) /\ GoodHandler(h)
  /\ vector \in {DoubleFault, 32, 33} => EndsInterrupt(h)
  /\ int_enabled' = FALSE /\ machine' = machine
  /\ double_faulted' => double_faulted \/ vector = DoubleFault \/ idt = "TEST_IDT"

LEMMA EnterHandler ==
  ASSUME KernelTypeOK, Depth = 1, tss_loaded, idt # "none", NEW vector \in Vectors,
         NEW line \in Lines \cup {NoLine}, NEW rest \in Code, Enter(vector, line, rest)
  PROVE  \E h : Enters(vector, line, rest, h)
<1>1. idt = "IDT" \/ idt = "TEST_IDT"
  BY Zenon DEF KernelTypeOK, Tables
<1>2. PICK v : v = IF vector \in DOMAIN handlers(idt) THEN vector ELSE DoubleFault
  BY Zenon
<1>3. /\ v \in DOMAIN handlers(idt) /\ v \in {vector, DoubleFault}
      /\ v = DoubleFault => vector = DoubleFault \/ idt = "TEST_IDT"
  BY <1>1, <1>2, Handlers, Zenon DEF Vectors
<1>4. PICK h : h = handlers(idt)[v] BY Zenon
<1>5. GoodHandler(h) /\ (v \in {DoubleFault, 32, 33} => EndsInterrupt(h))
  BY <1>1, <1>3, <1>4, Handlers, Zenon
<1>6. h \in Code
  BY <1>5, HandlerIsCode, Zenon DEF GoodHandler
<1>7. /\ stack' = Append([stack EXCEPT ![Depth].code = rest], Context(h, line))
      /\ int_enabled' = FALSE /\ machine' = machine
      /\ double_faulted' = (double_faulted \/ v = DoubleFault)
  BY <1>2, <1>3, <1>4, Zenon DEF Enter
<1>8. Pushes(rest, h, line)
  BY <1>6, <1>7, EnterPushes, Zenon
<1>9. double_faulted' => double_faulted \/ vector = DoubleFault \/ idt = "TEST_IDT"
  BY <1>3, <1>7, Zenon
<1>10. Enters(vector, line, rest, h)
  BY <1>3, <1>5, <1>7, <1>8, <1>9, Zenon DEF Enters
<1> QED BY <1>10, Zenon

(* Only the allocator's lock is held by code that is preempted. *)
LeftBelow(rest) ==
  \A l \in Locks : owner[l] # 0 => l = "ALLOCATOR" /\ owner[l] = 1 /\ Gives(rest, 1, l)

Entering(vector, line, rest) ==
  /\ vector \in Vectors /\ line \in Lines \cup {NoLine} /\ rest \in Code
  /\ Enter(vector, line, rest) /\ UNCHANGED <<program, owner, tables>>
  /\ Depth = 1 /\ tss_loaded /\ idt # "none"
  /\ BaseOK(program, rest, int_enabled, stack[1].saved, tss_loaded, idt, pic_initialized)
  /\ LeftBelow(rest)
  /\ vector = DoubleFault => program \in {"overflow", "tests/stack_overflow"}
  /\ pending' \subseteq Lines /\ in_service' \subseteq {line} \cap Lines
  /\ in_service' # {} => vector \in {32, 33}

LEMMA EnterStep ==
  ASSUME KernelInv, NEW vector, NEW line, NEW rest, Entering(vector, line, rest)
  PROVE  KernelInv'
<1> USE DEF Entering
<1>1. KernelTypeOK
  BY Zenon DEF KernelInv
<1>2. PICK h : Enters(vector, line, rest, h)
  BY <1>1, EnterHandler, Zenon
<1>3. /\ stack' \in Seq(ContextType) /\ Len(stack') = 2
      /\ stack'[1].code = rest /\ stack'[1].saved = stack[1].saved
      /\ stack'[2].code = h /\ stack'[2].line = line
      /\ stack'[2].iflag = int_enabled /\ stack'[2].saved = FALSE
      /\ int_enabled' = FALSE /\ machine' = machine
      /\ HandlerCode(h) /\ Ends(h)
  BY <1>2, Zenon DEF Enters, Pushes, GoodHandler
<1>4. Depth' = 2 /\ 1 # 2
  BY <1>3 DEF Depth
<1>5. /\ program' = program /\ owner' = owner /\ tss_loaded' = tss_loaded
      /\ idt' = idt /\ pic_initialized' = pic_initialized
  BY Zenon DEF tables
<1>6. Flag' = int_enabled
  BY <1>3, <1>4, Zenon DEF Flag
<1>7. BaseInv'
  BY <1>3, <1>5, <1>6, Zenon DEF BaseInv
<1>8. in_service' \subseteq Lines
  BY Zenon
<1>9. KernelTypeOK'
  BY <1>1, <1>3, <1>4, <1>5, <1>8, Zenon DEF KernelTypeOK
<1>10. HandlerInv'
  <2>1. in_service' # {} => EndsInterrupt(h)
    BY <1>2, Zenon DEF Enters
  <2> QED BY <1>3, <2>1, Zenon DEF HandlerInv
<1>11. LockInv'
  <2>1. ASSUME NEW l \in Locks, owner'[l] # 0
        PROVE  /\ owner'[l] \in 1 .. Depth'
               /\ Gives(stack'[owner'[l]].code, 1, l)
               /\ l = "ALLOCATOR" /\ owner'[l] = 1
    <3>1. l = "ALLOCATOR" /\ owner'[l] = 1 /\ Gives(rest, 1, l)
      BY <1>5, <2>1, Zenon DEF LeftBelow
    <3>2. 1 \in 1 .. 2
      OBVIOUS
    <3> QED BY <1>3, <1>4, <3>1, <3>2, Zenon
  <2> QED BY <2>1, Zenon DEF LockInv
<1>12. double_faulted' => program' \in {"overflow", "tests/stack_overflow"}
  <2>1. double_faulted' => double_faulted \/ vector = DoubleFault \/ idt = "TEST_IDT"
    BY <1>2, Zenon DEF Enters
  <2>2. /\ double_faulted => program \in {"overflow", "tests/stack_overflow"}
        /\ idt = "TEST_IDT" => program = "tests/stack_overflow"
    BY <1>1, Zenon DEF KernelInv, KernelTypeOK
  <2> QED BY <1>5, <2>1, <2>2, Zenon
<1> QED BY <1>4, <1>7, <1>9, <1>10, <1>11, <1>12, Zenon DEF KernelInv

LEMMA ExceptionStep == ASSUME KernelInv, exception PROVE KernelInv'
<1>1. /\ UNCHANGED <<program, owner, tables>> /\ pending' = pending /\ in_service' = in_service
  BY Zenon DEF exception, devices
<1>2. PICK op \in Faults :
        /\ At(op)
        /\ \/ op = "int3" /\ Enter(Breakpoint, NoLine, Rest)
           \/ op = "page_fault" /\ Enter(PageFault, NoLine, Running.code)
           \/ op = "overflow" /\ Enter(DoubleFault, NoLine, Running.code)
  BY Zenon DEF exception, Faults
<1>3. Depth = 1
  BY <1>2, HandlerNotAt, Zenon
<1>4. PICK c : c = stack[Depth].code BY Zenon
<1>5. c[1][1] = op /\ Rest = Tail(c) /\ Rest \in Code /\ KernelTypeOK /\ c \in Code
  BY <1>2, <1>4, AtHead, Zenon
<1>6. c = Running.code /\ c = stack[1].code
  BY <1>3, <1>4, Zenon DEF Running
<1>7. /\ BaseOK(program, c, int_enabled, stack[1].saved, tss_loaded, idt, pic_initialized)
      /\ tss_loaded /\ idt # "none" /\ pic_initialized
      /\ c[1] \in OrdinaryInstructions(program)
  BY <1>2, <1>3, <1>6, BaseHead, Zenon
<1>8. op \notin Enders \cup Enabling \cup BootSteps \cup {"without_interrupts", "unlock", "eoi", "initialize"}
  BY Zenon DEF Enders, Faults, Enabling, BootSteps
<1>9. OnlyBelow
  BY <1>4, <1>5, <1>8, NoLockHeld, Zenon
<1>10. LeftBelow(Rest) /\ LeftBelow(c)
  <2>1. 1 # 2
    OBVIOUS
  <2> QED BY <1>3, <1>9, <2>1, Zenon DEF OnlyBelow, LeftBelow
<1>11. /\ in_service' = {} /\ in_service' \subseteq {NoLine} \cap Lines /\ pending' \subseteq Lines
  BY <1>1, <1>3, <1>5, Zenon DEF KernelInv, KernelTypeOK
<1>12. /\ Breakpoint # DoubleFault /\ PageFault # DoubleFault
       /\ Breakpoint \in Vectors /\ PageFault \in Vectors /\ DoubleFault \in Vectors
  BY DEF Breakpoint, PageFault, DoubleFault, Vectors
<1>13. NoLine \in Lines \cup {NoLine}
  BY Zenon
<1>14. CASE op = "int3" /\ Enter(Breakpoint, NoLine, Rest)
  <2>1. Goes(c, int_enabled, stack[1].saved, tss_loaded, idt, pic_initialized,
             int_enabled, stack[1].saved, tss_loaded, idt, pic_initialized)
    BY <1>5, <1>7, <1>8, Zenon DEF Goes
  <2>2. BaseOK(program, Rest, int_enabled, stack[1].saved, tss_loaded, idt, pic_initialized)
    BY <1>5, <1>7, <2>1, BaseTail, Zenon
  <2>3. Entering(Breakpoint, NoLine, Rest)
    BY <1>1, <1>3, <1>5, <1>7, <1>10, <1>11, <1>12, <1>13, <1>14, <2>2, Zenon DEF Entering
  <2> QED BY <2>3, EnterStep, Zenon
<1>15. CASE op = "page_fault" /\ Enter(PageFault, NoLine, Running.code)
  <2>1. Enter(PageFault, NoLine, c)
    BY <1>6, <1>15, Zenon
  <2>2. Entering(PageFault, NoLine, c)
    BY <1>1, <1>3, <1>5, <1>7, <1>10, <1>11, <1>12, <1>13, <2>1, Zenon DEF Entering
  <2> QED BY <2>2, EnterStep, Zenon
<1>16. CASE op = "overflow" /\ Enter(DoubleFault, NoLine, Running.code)
  <2>1. Enter(DoubleFault, NoLine, c)
    BY <1>6, <1>16, Zenon
  <2>2. program \in {"overflow", "tests/stack_overflow"}
    BY <1>5, <1>7, <1>16, Zenon DEF OrdinaryInstructions
  <2>3. Entering(DoubleFault, NoLine, c)
    BY <1>1, <1>3, <1>5, <1>7, <1>10, <1>11, <1>12, <1>13, <2>1, <2>2, Zenon DEF Entering
  <2> QED BY <2>3, EnterStep, Zenon
<1> QED BY <1>2, <1>14, <1>15, <1>16, Zenon

LEMMA InterruptStep == ASSUME KernelInv, NEW line \in Lines, interrupt(line) PROVE KernelInv'
<1>1. /\ machine = "running" /\ int_enabled
      /\ pending' = pending \ {line} /\ in_service' = in_service \cup {line}
      /\ UNCHANGED <<program, owner, tables>>
  BY Zenon DEF interrupt
<1>2. PICK rest : rest = IF At("hlt") THEN Rest ELSE Running.code BY Zenon
<1>3. PICK c : c = stack[Depth].code BY Zenon
<1>4. KernelTypeOK /\ c \in Code /\ c # <<>> /\ c = Running.code
  <2>1. KernelTypeOK /\ c \in Code /\ c # <<>>
    BY <1>3, RunningCode, Zenon
  <2> QED BY <1>3, <2>1, Zenon DEF Running
<1>5. Depth = 1 /\ in_service = {}
  BY <1>1, <1>4, Zenon DEF KernelInv, KernelTypeOK, HandlerInv
<1>6. BaseOK(program, c, int_enabled, stack[1].saved, tss_loaded, idt, pic_initialized)
  BY <1>3, <1>5, Zenon DEF KernelInv, BaseInv, Flag
<1>7. tss_loaded /\ idt # "none" /\ pic_initialized
  BY <1>1, <1>6, Zenon DEF BaseOK
<1>8. /\ line + 32 \in {32, 33} /\ line + 32 \in Vectors /\ line + 32 # DoubleFault
  BY DEF Lines, Timer, Keyboard, Vectors, DoubleFault
<1>9. Enter(line + 32, line, rest)
  BY <1>2, <1>7, Zenon DEF interrupt
<1>10. At("hlt") => c[1][1] = "hlt" /\ Rest = Tail(c) /\ Rest \in Code
  BY <1>3, AtHead, Zenon
<1>11. rest \in Code
  BY <1>2, <1>4, <1>10, Zenon
<1>12. BaseOK(program, rest, int_enabled, stack[1].saved, tss_loaded, idt, pic_initialized)
  <2>1. CASE At("hlt")
    <3>1. "hlt" \notin Enders \cup Enabling \cup BootSteps \cup {"without_interrupts"}
      BY Zenon DEF Enders, Enabling, BootSteps
    <3>2. Goes(c, int_enabled, stack[1].saved, tss_loaded, idt, pic_initialized,
               int_enabled, stack[1].saved, tss_loaded, idt, pic_initialized)
      BY <1>7, <1>10, <2>1, <3>1, Zenon DEF Goes
    <3>3. BaseOK(program, Tail(c), int_enabled, stack[1].saved, tss_loaded, idt, pic_initialized)
      BY <1>6, <3>2, BaseTail, Zenon
    <3> QED BY <1>2, <1>10, <2>1, <3>3, Zenon
  <2>2. CASE ~At("hlt")
    BY <1>2, <1>4, <1>6, <2>2, Zenon
  <2> QED BY <2>1, <2>2, Zenon
<1>13. LeftBelow(rest)
  <2>1. ASSUME NEW l \in Locks, owner[l] # 0
        PROVE  l = "ALLOCATOR" /\ owner[l] = 1 /\ Gives(rest, 1, l)
    <3>1. /\ Gives(stack[owner[l]].code, 1, l) /\ l = "ALLOCATOR" /\ owner[l] = 1
      BY <1>1, <2>1, Zenon DEF KernelInv, LockInv
    <3>2. Gives(c, 1, l)
      BY <1>3, <1>5, <3>1, Zenon
    <3>3. ~At("hlt")
      BY <1>10, <3>2, GivesFirst, Zenon
    <3> QED BY <1>2, <1>4, <3>1, <3>2, <3>3, Zenon
  <2> QED BY <2>1, Zenon DEF LeftBelow
<1>14. pending' \subseteq Lines /\ in_service' \subseteq {line} \cap Lines
  BY <1>1, <1>4, <1>5, Zenon DEF KernelTypeOK
<1>15. line \in Lines \cup {NoLine}
  BY Zenon
<1>16. Entering(line + 32, line, rest)
  BY <1>1, <1>5, <1>7, <1>8, <1>9, <1>11, <1>12, <1>13, <1>14, <1>15, Zenon DEF Entering
<1> QED BY <1>16, EnterStep, Zenon

LEMMA Popped ==
  ASSUME NEW S, NEW q \in Seq(S), Len(q) = 2
  PROVE  SubSeq(q, 1, 2 - 1) \in Seq(S) /\ Len(SubSeq(q, 1, 2 - 1)) = 1 /\ SubSeq(q, 1, 2 - 1)[1] = q[1]
<1>1. 2 - 1 = 1 /\ \A i \in 1 .. 1 : q[i] \in S
  OBVIOUS
<1> QED BY <1>1

LEMMA IretqStep == ASSUME KernelInv, iretq PROVE KernelInv'
<1>1. /\ At("iretq") /\ int_enabled' = Running.iflag /\ stack' = SubSeq(stack, 1, Depth - 1)
      /\ program' = program /\ owner' = owner /\ UNCHANGED tables /\ pending' = pending
      /\ in_service' = in_service /\ double_faulted' = double_faulted /\ machine' = machine
  BY Zenon DEF iretq, devices
<1>2. PICK c : c = stack[Depth].code BY Zenon
<1>3. /\ c[1][1] = "iretq" /\ KernelTypeOK /\ c \in Code /\ 1 \in DOMAIN c
      /\ (Depth = 1 \/ Depth = 2)
  BY <1>1, <1>2, AtHead, Zenon
<1>4. Depth = 2
  <2>1. Depth = 1 => c[1] \in OrdinaryInstructions(program)
    BY <1>1, <1>2, BaseHead, Zenon
  <2> QED BY <1>3, <2>1, Zenon DEF OrdinaryInstructions
<1>5. in_service = {}
  <2>1. in_service # {} => EndsInterrupt(c)
    BY <1>2, <1>4, Zenon DEF KernelInv, HandlerInv
  <2> QED BY <1>3, <2>1, NoneEarlier, Zenon DEF EndsInterrupt
<1>6. stack \in Seq(ContextType) /\ Len(stack) = 2
  BY <1>3, <1>4, Zenon DEF KernelTypeOK, Depth
<1>7. stack' \in Seq(ContextType) /\ Len(stack') = 1 /\ stack'[1] = stack[1]
  BY <1>1, <1>4, <1>6, Popped, Zenon
<1>8. Depth' = 1 /\ 1 # 2 /\ 1 \in 1 .. 1
  BY <1>7 DEF Depth
<1>9. /\ tss_loaded' = tss_loaded /\ idt' = idt /\ pic_initialized' = pic_initialized
  BY <1>1, Zenon DEF tables
<1>10. int_enabled' = stack[2].iflag /\ int_enabled' = Flag /\ Flag' = Flag
  BY <1>1, <1>4, <1>8, Zenon DEF Running, Flag
<1>11. stack[2].iflag \in BOOLEAN
  <2>1. Running \in ContextType
    BY <1>3, StackTop, Zenon
  <2> QED BY <1>4, <2>1 DEF Running, ContextType
<1>12. BaseInv'
  BY <1>1, <1>7, <1>9, <1>10, Zenon DEF KernelInv, BaseInv
<1>13. KernelTypeOK'
  BY <1>1, <1>3, <1>7, <1>8, <1>9, <1>10, <1>11, Zenon DEF KernelTypeOK
<1>14. LockInv'
  <2>1. OnlyBelow
    <3>1. "iretq" \notin {"unlock", "eoi", "initialize"}
      BY Zenon
    <3> QED BY <1>2, <1>3, <3>1, NoLockHeld, Zenon
  <2>2. ASSUME NEW l \in Locks, owner'[l] # 0
        PROVE  /\ owner'[l] \in 1 .. Depth'
               /\ Gives(stack'[owner'[l]].code, 1, l)
               /\ l = "ALLOCATOR" /\ owner'[l] = 1
    <3>1. l = "ALLOCATOR" /\ owner'[l] = 1 /\ Gives(stack[1].code, 1, l)
      BY <1>1, <2>1, <2>2, Zenon DEF OnlyBelow
    <3> QED BY <1>7, <1>8, <3>1, Zenon
  <2> QED BY <2>2, Zenon DEF LockInv
<1>15. double_faulted' => program' \in {"overflow", "tests/stack_overflow"}
  BY <1>1, Zenon DEF KernelInv
<1> QED BY <1>1, <1>5, <1>8, <1>12, <1>13, <1>14, <1>15, Zenon DEF KernelInv

(* A tick, a key, or nothing at all *)
LEMMA DeviceStep ==
  ASSUME KernelInv, pending' \subseteq Lines,
         UNCHANGED <<program, stack, int_enabled, owner, tables, in_service, double_faulted, machine>>
  PROVE  KernelInv'
<1>1. /\ program' = program /\ stack' = stack /\ int_enabled' = int_enabled /\ owner' = owner
      /\ tss_loaded' = tss_loaded /\ idt' = idt /\ pic_initialized' = pic_initialized
      /\ in_service' = in_service /\ double_faulted' = double_faulted /\ machine' = machine
  BY Zenon DEF tables
<1>2. Depth' = Depth /\ Flag' = Flag
  BY <1>1, Zenon DEF Depth, Flag
<1>3. BaseInv'
  BY <1>1, <1>2, Zenon DEF KernelInv, BaseInv
<1>4. KernelTypeOK'
  BY <1>1, <1>2, Zenon DEF KernelInv, KernelTypeOK
<1>5. /\ Depth = 1 => in_service = {}
      /\ Depth = 2 => HandlerInv
      /\ LockInv
      /\ double_faulted => program \in {"overflow", "tests/stack_overflow"}
  BY Zenon DEF KernelInv
<1>6. HandlerInv => HandlerInv'
  BY <1>1 DEF HandlerInv
<1>7. LockInv'
  BY <1>1, <1>2, <1>5 DEF LockInv
<1>8. /\ Depth' = 1 => in_service' = {}
      /\ Depth' = 2 => HandlerInv'
      /\ double_faulted' => program' \in {"overflow", "tests/stack_overflow"}
  BY <1>1, <1>2, <1>5, <1>6
<1> QED BY <1>3, <1>4, <1>7, <1>8, Zenon DEF KernelInv

LEMMA DeviceSteps == ASSUME KernelInv, timer_ticks \/ key_pressed \/ UNCHANGED vars PROVE KernelInv'
<1>1. pending \subseteq Lines
  BY Zenon DEF KernelInv, KernelTypeOK
<1>2. pending' \subseteq Lines
  BY <1>1, Zenon DEF timer_ticks, key_pressed, vars, devices, Lines
<1>3. UNCHANGED <<program, stack, int_enabled, owner, tables, in_service, double_faulted, machine>>
  BY Zenon DEF timer_ticks, key_pressed, vars, devices
<1> QED BY <1>2, <1>3, DeviceStep, Zenon

-----------------------------------------------------------------------------
LEMMA KernelInit ==
  ASSUME \A p \in Programs : Disciplined(p, code(p)), Init
  PROVE  KernelInv
<1>1. PICK c : c = code(program) BY Zenon
<1>2. Disciplined(program, c)
  BY <1>1, Zenon DEF Init
<1>3. c \in Code
  BY <1>2, Zenon DEF Disciplined, Ordinary, Paired
<1>4. PICK k : k = [code |-> c, line |-> NoLine, iflag |-> FALSE, saved |-> FALSE] BY Zenon
<1>5. k \in ContextType /\ k.code = c /\ k.saved = FALSE
  BY <1>3, <1>4 DEF ContextType
<1>6. stack = << k >>
  BY <1>1, <1>4, Zenon DEF Init
<1>7. stack \in Seq(ContextType) /\ Len(stack) = 1 /\ stack[1] = k /\ 1 # 2
  BY <1>5, <1>6
<1>8. Depth = 1 /\ Flag = FALSE
  BY <1>7, Zenon DEF Depth, Flag, Init
<1>9. BaseOK(program, c, FALSE, FALSE, FALSE, "none", FALSE)
  <2>1. ASSUME NEW i \in DOMAIN c, c[i][1] \in Enabling \cup Faults
        PROVE  LoadedAt(c, i, FALSE, "none", FALSE)
    BY <1>2, <2>1, Zenon DEF Disciplined, LoadedAt, BootSteps
  <2> QED BY <1>2, <2>1, Zenon DEF Disciplined, BaseOK
<1>10. BaseInv
  BY <1>5, <1>7, <1>8, <1>9, Zenon DEF BaseInv, Init
<1>11. owner \in [Locks -> {0, 1, 2}] /\ LockInv
  <2>1. owner = [l \in Locks |-> 0]
    BY Zenon DEF Init
  <2>2. owner \in [Locks -> {0, 1, 2}] /\ \A l \in Locks : owner[l] = 0
    BY <2>1, Zenon
  <2> QED BY <2>2, Zenon DEF LockInv
<1>12. KernelTypeOK
  BY <1>7, <1>8, <1>11, Zenon DEF KernelTypeOK, Init, Tables
<1> QED BY <1>7, <1>8, <1>10, <1>11, <1>12, Zenon DEF KernelInv, Init

LEMMA KernelStep == ASSUME KernelInv, [Next]_vars PROVE KernelInv'
<1>1. CASE Step
  BY <1>1, WithoutInterruptsStep, SetFlagStep, LockStep, LoadTableStep, EoiStep, ReadPortStep,
     AddScancodeStep, ExecutorRunStep, AllocErrorStep, ExceptionStep, IretqStep, ExitStep, Zenon DEF Step
<1>2. CASE interrupt(Timer) \/ interrupt(Keyboard)
  BY <1>2, InterruptStep, Zenon DEF Lines
<1>3. CASE timer_ticks \/ key_pressed \/ UNCHANGED vars
  BY <1>3, DeviceSteps, Zenon
<1> QED BY <1>1, <1>2, <1>3, Zenon DEF Next

(* Whatever is booted, as long as its code keeps the discipline, the       *)
(* kernel's invariant holds: handlers are not nested and find the tables   *)
(* loaded, locks are given back at once and, but for the allocator's, held *)
(* with interrupts off only.                                               *)
THEOREM KernelInvariant ==
  ASSUME \A p \in Programs : Disciplined(p, code(p))
  PROVE  Spec => []KernelInv
<1>1. Init => KernelInv
  BY KernelInit, Zenon
<1>2. KernelInv /\ [Next]_vars => KernelInv'
  BY KernelStep, Zenon
<1> QED BY <1>1, <1>2, PTL DEF Spec

LEMMA Booted ==
  ASSUME Programs \subseteq EntryPoints PROVE \A p \in Programs : Disciplined(p, code(p))
  BY EntryPointsDisciplined, Zenon

(* print!, serial_print!, the PICS and the allocator never wait for a      *)
(* lock, in any set of the entry points of the repository.                 *)
THEOREM NobodyEverSpins ==
  ASSUME Programs \subseteq EntryPoints
  PROVE  Spec => []NobodySpins
<1>1. Spec => []KernelInv
  BY Booted, KernelInvariant
<1>2. ASSUME KernelInv, At("lock") PROVE owner[Argument] = 0
  <2>1. PICK c : c = stack[Depth].code BY Zenon
  <2>2. PICK l : l = c[1][2] BY Zenon
  <2>3. /\ c[1][1] = "lock" /\ Argument = l /\ Paired(c) /\ 1 \in DOMAIN c
        /\ (Depth = 1 \/ Depth = 2)
    BY <1>2, <2>1, <2>2, AtHead, Zenon
  <2>4. l \in Locks
    BY <2>2, <2>3, Zenon DEF Paired
  <2>5. OnlyBelow
    <3>1. "lock" \notin {"unlock", "eoi", "initialize"}
      BY Zenon
    <3> QED BY <1>2, <2>1, <2>3, <3>1, NoLockHeld, Zenon
  <2>6. owner[l] # 0 => l = "ALLOCATOR" /\ Depth = 2
    BY <2>4, <2>5, Zenon DEF OnlyBelow
  <2>7. Depth = 2 => l # "ALLOCATOR"
    <3>1. Depth = 2 => HandlerCode(c)
      BY <1>2, <2>1, RunningCode, Zenon
    <3>2. Depth = 2 => c[1] \in HandlerInstructions
      BY <2>3, <3>1, HandlerHead, Zenon
    <3> QED BY <2>2, <2>3, <3>2, Zenon DEF HandlerInstructions
  <2> QED BY <2>3, <2>6, <2>7, Zenon
<1>3. KernelInv => NobodySpins
  BY <1>2, Zenon DEF NobodySpins
<1> QED BY <1>1, <1>3, PTL

(* The handlers of the timer and the keyboard end their own interrupts and *)
(* no other handler ends one, in any set of the entry points.              *)
THEOREM InServiceAlwaysRunning ==
  ASSUME Programs \subseteq EntryPoints
  PROVE  Spec => []InServiceIsRunning
<1>1. Spec => []KernelInv
  BY Booted, KernelInvariant
<1>2. ASSUME KernelInv PROVE InServiceIsRunning
  <2>1. KernelTypeOK
    BY <1>2, Zenon DEF KernelInv
  <2>2. Depth \in DOMAIN stack /\ (Depth = 1 \/ Depth = 2)
    BY <2>1, StackTop, Zenon DEF KernelTypeOK
  <2>3. Depth = 1 => in_service = {}
    BY <1>2, Zenon DEF KernelInv
  <2>4. Depth = 2 => in_service \subseteq {stack[2].line}
    BY <1>2, Zenon DEF KernelInv, HandlerInv
  <2> QED BY <2>2, <2>3, <2>4, Zenon DEF InServiceIsRunning
<1> QED BY <1>1, <1>2, PTL

(* No entry point ever resets the machine, and only those that overflow    *)
(* the stack get to a double fault.                                        *)
THEOREM DoubleFaultsAlwaysReal ==
  ASSUME Programs \subseteq EntryPoints
  PROVE  Spec => []DoubleFaultsAreReal
<1>1. Spec => []KernelInv
  BY Booted, KernelInvariant
<1>2. KernelInv => DoubleFaultsAreReal
  BY Zenon DEF KernelInv, KernelTypeOK, DoubleFaultsAreReal
<1> QED BY <1>1, <1>2, PTL
=============================================================================
