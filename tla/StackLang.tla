------------------------------ MODULE StackLang ------------------------------
(***************************************************************************)
(* The stacksy language: what each word of a program does to the stack and *)
(* the memory, as README.md describes it; syscall is described as          *)
(* std.stacksy uses it (see Syscall).  Nothing here knows of registers,    *)
(* labels or a second stack.  This is what the compiled program promises.  *)
(***************************************************************************)
EXTENDS Numbers, Sequences, FiniteSets

CONSTANTS SyscallResults, ExitCall, ReadCall, Inputs

VARIABLES
  prog,    \* the words of the program
  status,  \* "off", "running", "exited", "fault"
  at,      \* the word to be executed next
  frames,  \* where the functions that are being called go on, innermost first
  stack,   \* values, top first
  mem,     \* address |-> byte
  base,    \* object |-> address: "@name" segments and string literals
  trace    \* system calls made: number, arguments, then what was read

vars == <<prog, status, at, frames, stack, mem, base, trace>>

-----------------------------------------------------------------------------
(***************************************************************************)
(* The shape of a program.                                                 *)
(***************************************************************************)
Named(i, name) == prog[i].head = "id" /\ prog[i].name = name
Starts(i) == prog[i].head = "#" /\ prog[i].name # ""
Ends(i) == prog[i].head = "#" /\ prog[i].name = ""

Count(name, i, j) == Cardinality({k \in i .. j : Named(k, name)})
Smallest(S) == CHOOSE x \in S : \A y \in S : x <= y
Largest(S) == CHOOSE x \in S : \A y \in S : x >= y

\* The elihw of the while whose do is at i, and the while of the elihw at i.
ElihwAfter(i) == Smallest({j \in i + 1 .. Len(prog) : Named(j, "elihw") /\
                             Count("while", i, j) = Count("elihw", i, j - 1)})
WhileBefore(i) == Largest({j \in 1 .. i - 1 : Named(j, "while") /\
                             Count("while", j, i) = Count("elihw", j, i)})
\* The else or fi, and the fi, that the branch at i leads to.
Balanced(i, j) == Count("if", i + 1, j - 1) = Count("fi", i + 1, j - 1)
ElseOrFi(i) == Smallest({j \in i + 1 .. Len(prog) :
                           (Named(j, "else") \/ Named(j, "fi")) /\ Balanced(i, j)})
FiAfter(i) == Smallest({j \in i + 1 .. Len(prog) : Named(j, "fi") /\ Balanced(i, j)})

Start(f) == 1 + CHOOSE i \in 1 .. Len(prog) : prog[i].head = "#" /\ prog[i].name = f

InBody(i) == \E s \in 1 .. i - 1 : Starts(s) /\ \A k \in s + 1 .. i - 1 : ~Ends(k)
Const(c) == prog[CHOOSE i \in 1 .. Len(prog) : prog[i].head = "$" /\ prog[i].name = c
                                             /\ ~InBody(i)].params[1]

\* Objects in memory: what is declared with @name:size, and string literals.
Segment(i) == prog[i].head = "@" /\ ~InBody(i)
Objects == {<<"mem", prog[i].name>> : i \in {j \in 1 .. Len(prog) : Segment(j)}}
           \cup {<<"str", prog[i].params>> : i \in {j \in 1 .. Len(prog) : prog[j].head = "str"}}
Size(o) == IF o[1] = "str" THEN 8 + Len(o[2])
           ELSE prog[CHOOSE i \in 1 .. Len(prog) : Segment(i) /\ prog[i].name = o[2]].params[1]
Content(o, k) == IF o[1] = "mem" THEN 0
                 ELSE IF k < 8 THEN Digits(Len(o[2]), 8)[k] ELSE o[2][k - 7]
Extent(o) == base[o] .. base[o] + Size(o) - 1

-----------------------------------------------------------------------------
Init == /\ status = "off" /\ at = 0
        /\ frames = <<>> /\ stack = <<>> /\ trace = <<>>

\* Objects get addresses of their own.  The stack holds what the system put
\* there; nothing is said of it.
Begin ==
        /\ status = "off"
        /\ status' = "running"
        /\ at' = Start("entry")
        /\ DOMAIN base' = Objects
        /\ \A o, p \in Objects : o # p => Extent(o)' \cap Extent(p)' = {}
        /\ DOMAIN mem' = UNION {Extent(o)' : o \in Objects}
        /\ \A o \in Objects : \A k \in 0 .. Size(o) - 1 : mem'[base'[o] + k] = Content(o, k)
        /\ UNCHANGED <<prog, frames, trace>>

this == prog[at]
Op(name) == Named(at, name)
V(i) == stack[i + 1]                 \* (Top-i)
Drop(n) == SubSeq(stack, n + 1, Len(stack))
Has(n) == Len(stack) >= n

Go(i) == at' = i
Quiet == UNCHANGED <<prog, status, mem, base, trace>>
Becomes(s) == stack' = s /\ Go(at + 1) /\ UNCHANGED frames /\ Quiet
Jump(i) == Go(i) /\ UNCHANGED <<frames, stack>> /\ Quiet

Literal == this.head = "int" /\ Becomes(<<Wrap(this.params[1])>> \o stack)
Constant == this.head = "$" /\ Becomes(<<Wrap(Const(this.name))>> \o stack)
Address == this.head = "@" /\ Becomes(<<base[<<"mem", this.name>>]>> \o stack)
String == this.head = "str" /\ Becomes(<<base[<<"str", this.params>>]>> \o stack)

\* Integers are signed; division rounds towards zero.
Abs(v) == IF v < 0 THEN -v ELSE v
Quotient(a, b) == LET q == Abs(a) \div Abs(b) IN IF (a < 0) = (b < 0) THEN q ELSE -q
Remainder(a, b) == a - b * Quotient(a, b)

\* (Top-1) op (Top).
Binary ==
  /\ this.head = "id"
  /\ Has(2)
  /\ LET a == Signed(V(1))  b == Signed(V(0))
         Result(v) == Becomes(<<Wrap(v)>> \o Drop(2))
         Truth(c) == Result(IF c THEN 1 ELSE 0)
     IN \/ Op("+") /\ Result(a + b)
        \/ Op("-") /\ Result(a - b)
        \/ Op("*") /\ Result(a * b)
        \/ Op("/") /\ b # 0 /\ Result(Quotient(a, b))
        \/ Op("%") /\ b # 0 /\ Result(Remainder(a, b))
        \/ Op("divmod") /\ b # 0
           /\ Becomes(<<Wrap(Remainder(a, b)), Wrap(Quotient(a, b))>> \o Drop(2))
        \/ Op("or") /\ Result(BitOr(V(1), V(0)))
        \/ Op("&") /\ Result(BitAnd(V(1), V(0)))
        \/ Op("=") /\ Truth(a = b)
        \/ Op("!=") /\ Truth(a # b)
        \/ Op("<") /\ Truth(a < b)
        \/ Op(">") /\ Truth(a > b)
        \/ Op("<=") /\ Truth(a <= b)
        \/ Op(">=") /\ Truth(a >= b)

Given(i, default) == IF Len(this.params) >= i THEN this.params[i] ELSE default
Pop == Op("pop") /\ Has(1) /\ Becomes(Drop(1))
Copy == /\ Op("copy")
        /\ LET n == Given(1, 0)  count == Given(2, 1)
           IN Has(n + 1) /\ Becomes([i \in 1 .. count |-> V(n)] \o stack)
Swap == /\ Op("swap")
        /\ LET n == Given(1, 1)  m == Given(2, 0)
           IN /\ Has(n + 1) /\ Has(m + 1)
              /\ Becomes([stack EXCEPT ![n + 1] = V(m), ![m + 1] = V(n)])

Get == /\ Op("get") /\ Has(1) /\ Mapped(mem, V(0), this.params[1])
       /\ Becomes(<<Load(mem, V(0), this.params[1])>> \o Drop(1))

\* The value at (Top), to the pointer at (Top-1).  The only word that writes, but
\* for the system call read.
Set == /\ Op("set") /\ Has(2) /\ Mapped(mem, V(1), this.params[1])
       /\ mem' = Store(mem, V(1), V(0), this.params[1])
       /\ stack' = Drop(2)
       /\ Go(at + 1)
       /\ UNCHANGED <<prog, status, frames, base, trace>>

\* README.md:40 says "syscall:n -- call the syscall n".  That is not what is meant here:
\* n counts the arguments, and the number of the call is at (Top), as std.stacksy:7-8
\* and the compiler have it (main.py:349-356).
CallMade == SubSeq(stack, 1, this.params[1] + 1)
Returns(r) == /\ stack' = <<r>> \o Drop(this.params[1] + 1)
              /\ Go(at + 1)
              /\ UNCHANGED status
ReadInput ==
  IF ~Mapped(mem, V(2), V(3))
  THEN Returns(Wrap(-14)) /\ trace' = Append(trace, CallMade) /\ UNCHANGED mem
  ELSE \E data \in Inputs :
         /\ Len(data) <= V(3)
         /\ mem' = Place(mem, V(2), data)
         /\ trace' = Append(trace, CallMade \o data)
         /\ Returns(Len(data))
Syscall ==
  /\ Op("syscall") /\ Has(this.params[1] + 1)
  /\ IF V(0) = ReadCall /\ this.params[1] = 3 THEN ReadInput
     ELSE /\ trace' = Append(trace, CallMade)
          /\ IF V(0) = ExitCall THEN status' = "exited" /\ UNCHANGED <<at, stack>>
             ELSE \E r \in SyscallResults : Returns(r)
          /\ UNCHANGED mem
  /\ UNCHANGED <<prog, frames, base>>

\* while and fi mark a place; the other words lead to what follows the mark.
Mark == (Op("while") \/ Op("fi")) /\ Jump(at + 1)
BackToWhile == Op("elihw") /\ Jump(WhileBefore(at) + 1)
PastElse == Op("else") /\ Jump(FiAfter(at) + 1)
Branch == /\ Op("do") \/ Op("if")
          /\ Has(1)
          /\ Go(IF V(0) # 0 THEN at + 1
                ELSE IF Op("do") THEN ElihwAfter(at) + 1 ELSE ElseOrFi(at) + 1)
          /\ stack' = Drop(1)
          /\ UNCHANGED frames /\ Quiet

CallWord == /\ this.head = "id"
            /\ \E i \in 1 .. Len(prog) : prog[i].head = "#" /\ prog[i].name = this.name
            /\ Go(Start(this.name))
            /\ frames' = <<at + 1>> \o frames
            /\ UNCHANGED stack /\ Quiet

Return == /\ Ends(at)
          /\ frames # <<>>
          /\ Go(Head(frames))
          /\ frames' = Tail(frames)
          /\ UNCHANGED stack /\ Quiet

\* The end of entry ends the process with status 0.
ReturnFromEntry == /\ Ends(at)
                   /\ frames = <<>>
                   /\ status' = "exited"
                   /\ trace' = Append(trace, <<ExitCall, 0>>)
                   /\ UNCHANGED <<prog, at, frames, stack, mem, base>>

Execute ==
  \/ Literal \/ Constant \/ Address \/ String
  \/ Binary \/ Pop \/ Copy \/ Swap \/ Get \/ Set \/ Syscall
  \/ Mark \/ BackToWhile \/ PastElse \/ Branch
  \/ CallWord \/ Return \/ ReturnFromEntry

\* A word that lacks its operands, divides by zero or uses an address outside
\* every object: the system stops the process.
Undefined ==
  LET need == CASE Op("pop") \/ Op("do") \/ Op("if") \/ Op("get") -> 1
                [] Op("copy") -> Given(1, 0) + 1
                [] Op("swap") -> 1 + (IF Given(1, 1) > Given(2, 0) THEN Given(1, 1)
                                      ELSE Given(2, 0))
                [] Op("syscall") -> this.params[1] + 1
                [] this.name \in {"+", "-", "*", "/", "%", "divmod", "or", "&", "=", "!=",
                                  "<", ">", "<=", ">=", "set"} -> 2
                [] OTHER -> 0
  IN \/ ~Has(need)
     \/ Has(need) /\ this.name \in {"/", "%", "divmod"} /\ V(0) = 0
     \/ Has(need) /\ Op("get") /\ ~Mapped(mem, V(0), this.params[1])
     \/ Has(need) /\ Op("set") /\ ~Mapped(mem, V(1), this.params[1])
Fault == /\ Undefined
         /\ status' = "fault"
         /\ UNCHANGED <<prog, at, frames, stack, mem, base, trace>>

Step == status = "running" /\ (Execute \/ Fault)
Next == Begin \/ Step

\* A program that has begun goes on.
Spec == Init /\ [][Next]_vars /\ WF_vars(Step)
=============================================================================
