------------------------------- MODULE Library -------------------------------
(***************************************************************************)
(* std.stacksy: the functions that print and read, as programs for the     *)
(* compiler, and what they do when they are compiled and run with the      *)
(* program that imports them.                                              *)
(***************************************************************************)
EXTENDS Toolchain

CONSTANTS
  Tests,     \* what is run: [main, writes, leaves], see below
  WriteCall  \* number of write; 1 on Linux

Function(f, body) == <<Hash(f)>> \o body \o <<Hash("")>>

temp == AtSize("temp", 100)
Descriptors == <<DollarIs("stdin", 0), DollarIs("stdout", 1)>>
sys_read == Function("sys_read", <<Lit(ReadCall), IdN("syscall", <<3>>)>>)
sys_write == Function("sys_write", <<Lit(WriteCall), IdN("syscall", <<3>>)>>)

Digit0 == 48
Minus == 45

\* Digits are stored backwards from the end of temp, then the length in front.
\* Mutant: from behind the end.
StartPast == <<Lit(0), Id("swap"), At("temp_end")>>
FromTheEnd == <<Lit(0), Id("swap"), At("temp_end"), Lit(1), Id("-")>>
\* Mutant: the digits are those of the number as it is.
Unsigned == <<>>
Negate == <<IdN("copy", <<1>>), Lit(0), Id("<"), Id("if"),
              Lit(1), IdN("swap", <<3>>), Id("pop"),
              Id("swap"), Lit(-1), Id("*"), Id("swap"),
            Id("fi")>>
StoreDigits == <<Id("while"),
                   Id("copy"), IdN("swap", <<2>>), Lit(10), Id("divmod"),
                   Lit(Digit0), Id("+"), IdN("swap", <<2, 1>>), Id("setbyte"),
                   Id("copy"), Lit(0), Id("!="), Id("do"),
                   Id("swap"), Lit(1), Id("-"),
                 Id("elihw")>>
StoreSign == <<Id("swap"), Lit(1), Id("="), Id("if"),
                 Lit(1), Id("-"), Id("copy"), Lit(Minus), Id("setbyte"),
               Id("fi")>>
StoreLength == <<Id("copy"), Lit(8), Id("-"), Id("copy"), IdN("swap", <<2>>),
                 At("temp_end"), Id("swap"), Id("-"), IdN("set", <<8>>)>>
to_string == Function("to_string", FromTheEnd \o Negate \o StoreDigits \o <<Id("pop")>>
                                   \o StoreSign \o StoreLength)

Clear == <<27, 91, 72, 27, 91, 74>>   \* ESC [ H ESC [ J
clear == Function("clear", <<Str(Clear), Id("print")>>)
print == Function("print",
  <<Id("copy"), IdN("get", <<8>>), Id("swap"), Lit(8), Id("+"),
    Dollar("stdout"), Id("sys_write"), Id("pop")>>)
printn == Function("printn", <<Id("swap"), Dollar("stdout"), Id("sys_write"), Id("pop")>>)
\* Mutant: the end of the text is never found.
strlen_endless == Function("strlen",
  <<Id("copy"), Id("while"), Id("copy"), IdN("get", <<1>>), Id("do"), Lit(0), Id("+"),
    Id("elihw"), Id("swap"), Id("-")>>)
strlen == Function("strlen",
  <<Id("copy"), Id("while"), Id("copy"), IdN("get", <<1>>), Id("do"), Lit(1), Id("+"),
    Id("elihw"), Id("swap"), Id("-")>>)
puts == Function("puts", <<Id("copy"), Id("strlen"), Id("swap"), Dollar("stdout"),
                           Id("sys_write"), Id("pop")>>)
printint == Function("printint", <<Id("to_string"), Id("print")>>)
getbyte == Function("getbyte", <<IdN("get", <<1>>)>>)
setbyte == Function("setbyte", <<IdN("set", <<1>>)>>)
readbyte == Function("readbyte",
  <<Lit(1), At("temp"), Dollar("stdin"), Id("sys_read"), Id("pop"), At("temp"), Id("getbyte")>>)
readstring == Function("readstring",
  <<IdN("copy", <<1>>), Lit(8), Id("+"), Id("swap"), Lit(8), Id("-"), Id("swap"),
    Dollar("stdin"), Id("sys_read"), IdN("set", <<8>>)>>)

\* In the order of the file.
Std == <<temp>> \o Descriptors \o sys_read \o sys_write \o to_string \o clear \o print
       \o printn \o strlen \o puts \o printint \o getbyte \o setbyte \o readbyte
       \o readstring

-----------------------------------------------------------------------------
(***************************************************************************)
(* A test is a program of one function, with                               *)
(*   writes: the texts it writes, each [text, input]; when input holds,    *)
(*           what has been read, and text if nothing has been;             *)
(*   leaves: what it leaves on the stack.                                  *)
(***************************************************************************)
Importing(main) == Std \o <<AtSize("kept", 8), AtSize("buffer", 16)>> \o Function("entry", main)

LibraryInit == ToolchainInit /\ \E t \in Tests : src = Importing(t.main)
LibrarySpec == LibraryInit /\ [][Next]_vars /\ WF_vars(Next)

Test == CHOOSE t \in Tests : src = Importing(t.main)
IsWrite(call) == call[1] = WriteCall
Reads == SelectSeq(trace, LAMBDA call : call[1] = ReadCall)
InputRead == LET call == Reads[Len(Reads)] IN SubSeq(call, 5, Len(call))
Expected(w) == IF w.input /\ InputRead # <<>> THEN InputRead ELSE w.text

\* A number is written in decimal digits, with its sign, from the least to the
\* largest; a text is written whole, whether it has its length in front or a zero
\* behind it; what was read is what is written (std.stacksy:346-432).
Writing == power = "running" /\ Instr("SYSCALL") /\ regs["RAX"] = WriteCall
WritesAsExpected ==
  Writing =>
    LET n == Len(SelectSeq(trace, IsWrite)) + 1 IN
    /\ n <= Len(Test.writes)
    /\ regs["RDI"] = 1
    /\ [i \in 1 .. regs["RDX"] |-> mem[regs["RSI"] + i - 1]] = Expected(Test.writes[n])

\* No function of the library touches the memory of its caller, but for the
\* buffer that readstring is given; nor the strings (std.stacksy:346-432).
Span(name, size) == symbols[<<name>>] .. symbols[<<name>>] + size - 1
Allowed == Span("temp", 100) \cup Span("buffer", 16)
CallerMemoryStays ==
  [][power = "running" => \A a \in Allocated \ Allowed : mem'[a] = mem[a]]_vars

\* A program that calls the library ends, all written, and each function has
\* taken its arguments and left its result, nothing more, on the stack: what lay
\* below is still there (std.stacksy:346-432).
StackBelow == 2   \* words that _start leaves
EndsInOrder ==
  <>(/\ power = "exited"
     /\ Len(SelectSeq(trace, IsWrite)) = Len(Test.writes)
     /\ Len(seen.stack) = StackBelow + Len(Test.leaves)
     /\ SubSeq(seen.stack, 1, Len(Test.leaves)) = Test.leaves)
=============================================================================
