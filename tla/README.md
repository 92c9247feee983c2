# A verification project for stacksy

Stacksy is a stack based language with white space separated words. `main.py`
compiles it to GNU assembly for x86-64 Linux; `debugger/` is an ncurses debugger
for the compiled programs. This directory holds TLA+ modules that model the
compiler, the code it produces, the library and the debugger, TLC configurations
that check them, and proofs that TLAPS checks.

## 1. Inventory

| component | state it keeps | operations | interacts with |
|---|---|---|---|
| word source: `CodeIterator.py`, and the loop `Parser.run` | six parallel lists of open files, `all_imported_paths` | `__next__`, `get_next_op`, `add_import`, `skip_line` | called by `Parser.run`; `import:` calls back into it in the middle of a line; its numbers go into `.loc` and `.file` |
| compiler: `Parser.py`, `main.py`, `StacksyFunction.py` | function being compiled (twice: `in_function` and `compile_unit`), functions, calls, segments, constants, strings, stacks of block labels, `asm` | one method per word; `op_outside`; the end of the input; the command line | words from the source; the assembly file to `as` and `ld` |
| compiled program | value stack (`RSP`), second stack of return places (`R12` into `call_stack`), registers, memory | one instruction at a time; system calls | the kernel |
| literals: `get_next_op` and `read_string_character`, `get_char`, `escape_gas_string` | the place in the line | cutting lines into words, unescaping, escaping | word source, compiler, assembler |
| debugger core: `debugger.cpp`, `breakpoint.hpp` | breakpoint table with saved bytes, `mPc`, `mRegs`, `mRunning` | continue, step, next, finish, breakpoints, wait | ptrace; debug information; view |
| debug information: `debuginfo.cpp` | line table, function addresses | lookups | the `.loc` directives of the compiler |
| debugger view and pipes: `debuggerview.cpp`, `debugeepipe.hpp` | input window, output lines, read buffer, two pipes | commands, `waitForDebugee`: ask `waitpid`, read keys, send a line, drain output | debuggee, user, debugger core |
| source display: `getSource`, `printSource` | cached segments of each line | splitting a file into lines and segments, choosing lines and the marked word | line table columns |
| library: `std.stacksy` | `temp`, shared by all calls | printing, reading, conversion of numbers | imported by programs; system calls |
| `gameoflife.stacksy`, `unit_tests/` | programs in the language | | |
| libelfin-fbreg, linenoise, ncurses | third-party | | |

What is hard here, and what makes each component correct:

- **Word source.** Files suspend each other in the middle of a line. Cycles,
  self imports, diamonds and missing files must neither loop nor deliver a word
  twice, and each word must carry the line and op number it has in its own file.
- **Compiler.** It checks neither nesting nor pairing, keeps the current
  function in two variables, shares label numbers between functions and continues
  to the output file after an exception. Labels must stay distinct, jumps and calls
  must have targets, functions must leave the second stack balanced.
- **Compiled program.** A word's code relies on nothing but the two stacks, yet
  every word passes through the same four registers; the meaning of the whole is
  the language of `README.md` in the repository.
- **Debugger.** A breakpoint is a byte in the memory of the process, an entry in a table
  and, while it is stepped over, neither. `next` is three nested loops over single steps
  and temporary breakpoints, and faults and exits can come in the middle of each. The
  program must not notice any of it, and the user's breakpoints must survive it.
- **View and pipes.** User, process and debugger act at their own pace; one input
  window serves the command line and the process; output is read without waiting and
  cut wherever a pipe happens to be empty. Nothing may be lost, doubled, reordered or
  sent to the other side, and the loop must end when the process has stopped.
- **Literals and source display.** Two scanners read the same file: the compiler's
  numbers words for the line table, the debugger's numbers them for the display, and
  they follow different rules for quotes, tabs and comments. A literal is unescaped
  once and escaped once more for the assembler, and must come out as it was meant.
- **Library.** Functions without local variables: everything is where `copy` and
  `swap` have left it, and one buffer is shared by all calls.

The hazards, each at its line, are in `PROJECT.json`.

## 2. Modules

| module | models | composed of |
|---|---|---|
| `Inclusion` | what `import:` promises: one text in which each file appears once, where it is first named | |
| `CodeIterator` | `CodeIterator.py` and its driver | refines `Inclusion` |
| `CodeIterator_proofs` | theorems about `CodeIterator`, the refinement among them | `SequenceFacts` |
| `Compiler` | `Parser.py`, `main.py`, `StacksyFunction.py` from words to the assembly file, and the command line | `Grammar`, for what it must accept |
| `Grammar` | which sequences of words are programs | |
| `Compiler_proofs` | theorems about `Compiler`: types, block stacks, jumps, the open function, frames, the file after an exception, labels of blocks, calls, well formed programs | `SequenceFacts` |
| `Numbers` | words, bytes, memory, scaled by `ByteSize` and `WordBits` | |
| `Machine` | assembler, linker, loader, the instructions used, reading from the input | `Numbers` |
| `StackLang` | what the language promises, word by word | `Numbers` |
| `Toolchain` | compile, link, run | `Compiler`, `Machine`; refines `StackLang` |
| `Words_proofs` | what the code of each word does to the machine, and where it stands while the compiler writes it | `Toolchain`, `Compiler_proofs` |
| `Toolchain_proofs` | the file, the linker, the run: each word that calculates does what it says | `Words_proofs` |
| `Image` | what the debugger has of a program: instructions, symbols, line table | |
| `Debuggee` | the program running on its own | |
| `Debugger` | `debugger.cpp`, `breakpoint.hpp`, the lookups of `debuginfo.cpp`, the commands of `debuggerview.cpp` | `Debuggee`; its processes refine `Debuggee!ProgramSpec` |
| `Debugger_proofs` | theorems about `Debugger`: breakpoints, copies, types; the process runs as it does alone; where `finish` and `next` end | `SequenceFacts` |
| `Library` | the functions of `std.stacksy` that print and read, and what they promise | `Toolchain` |
| `Literals` | the compiler's scanner character by character, and the way of a literal to its bytes | |
| `SourceView` | `getSource` and `printSource` | `Literals` |
| `SourceView_proofs` | theorems about `SourceView` and the scanner of `Literals` | `SequenceFacts` |
| `Stream` | what arrives is what was sent, in order | |
| `DebuggeeIO` | the input window, the two pipes and `waitForDebugee`, between user and process | refines `Stream` three times |
| `DebuggeeIO_proofs` | theorems about `DebuggeeIO`, the three refinements among them | `SequenceFacts` |
| `SequenceFacts` | lemmas on sequences, least numbers, `FlattenSeq`, and induction over a set of numbers | |
| `MCCodeIterator`, `MCGrammar`, `MCToolchain`, `MCDebugger`, `MCLibrary`, `MCText`, `MCDebuggeeIO` | small instances; `MCDebugger` links its programs with `Image` | |

`Inclusion`, `Grammar`, `StackLang` and `Stream` are specifications of what the components
promise. They are the other side of the comparison, so they follow the
repository's README and do not mirror the code. One word is an exception: `README.md:40`
says "`syscall:n` -- call the syscall n", but `std.stacksy:7-8` and everything built on it
write the number of the call in front and the count of arguments behind the colon
(`1 syscall:3` is `write`), which is what the compiler does (`main.py:349-356`).
`StackLang!Syscall` follows `std.stacksy`, so no run compares that sentence with the code.

### CodeIterator

`open` is the six parallel lists as one stack of records (`path`, `line_num`,
`op_num`, `index`); the line itself is looked up in `disk`. `status` is `done` where
`StopIteration` leaves `__next__`, `error` where a `CodeException` does. A word is a
record that keeps only what the iterator and its driver tell apart. One step is one
turn of the loops in `__next__` and `Parser.run`: `NextLine` and `CloseFile` are the
two outcomes of `next(files[-1])`, `ReadWord`, `SkipComment`, `UnterminatedString`
and `ReadImport` what happens to the word that was read. `Rejected` stands for every
word on which the parser raises an exception, an `import:` inside a function
included. The number of a `.loc` is read when the word is (`get_file_num`);
`fileTable` holds the `.file` directives in order.

`Program!Spec` (module `Inclusion`) is refined by mapping the stack of suspended
files to the text that is still to come (`TextToCome`).

### Compiler

`src` is the sequence of words after inclusion, `pos` how many were read; a word is
the record that `o = word.lower().split(":")` amounts to. The variables are the
fields of the two classes under their own names, except `asm`, which starts with the
`call_stack` segment and holds lines as records. `functions` maps a name to the lines
of its `StacksyFunctionX64`. A label is the tuple of the parts that the file joins
with `_`. `Parts` gives the parts of a segment's name, because that name becomes a
label unchanged and can meet one of the compiler's.

One step is one word: the method it leads to with everything it calls. Operators
that only add code are one action, `Plain`, with the table `PlainCode`; those that
change the compiler's state have an action each. `Fail` is an exception:
`CodeException` (`error`), the exception that serves as an assertion in `funcdef`
(`assertion`) and `IndexError`/`KeyError` (`crash`). `Finish` is the rest of `run`;
`WriteOutput` is the command line, which writes the file after a `CodeException` and
exits with 0. Compile-time numbers that Python's `int` rejects, `.cfi` directives and
the wording of comments are left out.

### Machine, Numbers, Toolchain, StackLang

`Machine` is external to the repository: it is modelled from the instructions
`main.py` emits. A word takes 8 bytes (`Numbers`), so every offset and size of the
code keeps its value; what a byte and a word hold is scaled. In `language` a byte has
one bit and a word 2^8 values, in `library` bytes are characters and a word has 2^12:
carries, sign and truncation happen at the limits of a word as they do with 64 bits.
The linker takes the objects of `.data` and then those of `.bss`, in the order of their
lines, and gives each the address behind the bytes of those before it; a label of code
gets its place in the text.
A system call that reads puts some of `Inputs` where it is told, or fails; the other
calls return any of `SyscallResults`. The stack pointer is the length of `stack`. What
`ADD $0x20, %RSP` in `_start` gives up and `LEAVE` brings back is not tracked below
the stack pointer; nothing reads it before the process ends.

`Toolchain` runs the three in sequence and remembers the machine at the last place where
the code of a word started (a `.loc`, or the epilogue). The refinement mapping reads the
language's state off that snapshot: the place of the word in the program, the return
places in `call_stack` as frames, values, memory without `call_stack`, system calls.
`CompiledProgramIsProgram` is `StackLang!Spec` under that mapping, its fairness included
(a program that has begun goes on), and that no program fails to link.
`WordsCalculate` is the part of it about the words that push, calculate, shuffle the
stack, load and store, said step by step: from wherever such a word is entered, also in a
run that has parted from the language before. It excepts what the code does not promise,
division of negative numbers and a run whose `call_stack` has overflowed, and programs whose
numbers of lines, addresses and characters have no room in a scaled word (`Fits`).

### Debuggee, Image, Debugger

`Image!Link` lays a program out as the compiler does: `_start`, the functions one after
the other, a row of the line table for each word of a body and none for `#name`, the
prologue and the epilogue. The last row is the one with which the assembler ends the
table: it repeats the place of the last word at the address behind the text, and
`loadLineEntries` stores it like the others (`debuginfo.cpp:243-251`). An instruction
takes one address, as `int3` does. `Debuggee` runs it: calls push the return place on the
value stack, the prologue moves it to `call_stack`, the epilogue back.

`SYSCALL` takes two addresses, its two bytes, because the debugger can lead a process to
the second one. Linux on x86 reports the single step over a `SYSCALL` with `TRAP_BRKPT`
(`user_single_step_report`), `handleSigtrap` takes that for a breakpoint and moves `RIP`
back by one (`debugger.cpp:322-326`). The byte that is executed next, `05`, is an `ADD`
with the four bytes behind it for its operand, so that the `PUSH RAX` of `syscall:n` and
part of what follows are skipped. The model has an instruction `inside` there, which
finds back to some instruction of the same function and sets `astray`. How wrong the values
of the program are then, it does not say, and neither do the properties about `finish`,
`next` and the end of commands.

`code` and `mBreakpoints` are the process's memory and the debugger's table; operators
on breakpoints take and return both as `[code, table]`. `mPc`, `mRegs`, `mRunning` are
the fields of `StacksyDebugger`. The code is one thread with nested calls: `cmd.at` says in
which of them it is (`stepping`: one turn of `stepFrom`; `over`: the loops of
`stepOver`; `running`: `wait` in `continueExecution`), and the other fields of `cmd` are
the locals. One step is one command up to its first wait, one single step with all that
`stepOverBreakpoint` does, one turn of an outer loop, or one instruction that the
process executes on its own. `NoFunction` and `NoAddress` stand for the exceptions of
the lookups, `Throw` for what an exception leaves of a command. `mPc` is not
initialised when `run` first compares it with the breakpoints; `Init` chooses whether it
happens to be the address of one.

Left out: the load address and several compilation units (the compiler writes one),
what lies below `call_stack` (no address of code), and the commands
that only print.

`RunsAsAlone` is `ProgramSpec` of `Debuggee` on the process of the debugger, but for
`LandsInside`: every change of the process is one of its own instructions, in its own
order, or the step that ends in the middle of a `SYSCALL`. That step is never taken while
the process runs freely, with or without breakpoints in its way.

`b line col file` takes a file of the line table by number (`Files`); the search for a
file whose path ends with the name is left out.

### Library

Each function of `std.stacksy` is a sequence of words for `Compiler`, in the order of
the file, so the library is compiled, linked and run like any program. A test is the
body of an `entry` with what it writes and leaves on the stack. All functions from
`to_string` on are there. The constants that they do not use, and the wrappers `sys_*`
that are a number and `syscall` like `sys_read`, are left out.

### Literals and SourceView

A character is its code and a file one text; a line ends at its newline or at the end
of the text. `next` is the index in the line, `delim`, `res` the state of
`read_string_character`; its three outcomes besides a character are `IndexError`,
`unterminated` and the end of the literal. `GetChar`, `Escaped` and, external,
`Assembled` (GNU as reading `.ascii`) are operators on the result. `Meaning` is what the
program gets.

`SourceView` runs the debugger's scanner on the same file after the compiler's:
`curLine`, `curWord`, `inWhitespace` as in `getSource`, `source` for `mSources[path]`,
`quote` for the inner loop. `PrintSource` looks up any word by the line and op number
the compiler gave it, as the line table does, for windows of each of `Heights`. `Tidy`
says of a file that it has none of the things the two scanners treat differently.

### Stream, DebuggeeIO

Three parties: the user presses keys when they are read; the process writes, reads and
stops when it likes; the debugger's thread is at `at`: `prompt`, between two waits
(`command`), or in one of the four parts of a turn of `waitForDebugee` (`waitpid`,
`input`, `send`, `drain`). `out` and `in` are the pipes, `mReadBuf` and `line` what the
stream buffer and `getline` hold. A write of the process that finds no room in its pipe,
which does not block, is lost and noted in `overflow`; `sendString` blocks, and SIGPIPE
ends the debugger when nobody can read (`killed`). All that `Debugger` does between two
waits is one step here, `Command`: the process goes on and is waited for again, as by
`step` and `next` for every instruction, or the debugger asks for the next command.
`Stream` says of `sent` and `received` that what arrives is a prefix of what was sent:
it is refined by the output (`Display`), the keys (`Typing`) and the lines for the
process (`Delivery`).

## 3. Runs

| run | module, cfg | expect | shows |
|---|---|---|---|
| `inclusion` | `MCCodeIterator` | pass | types, no word twice, `.loc` after its `.file`, refinement of `Inclusion`, termination |
| `words_to_file` | `MCGrammar` | pass | types, block stacks, labels, jumps in files that close their blocks, frames, calls, one open unit and what a failed run writes, for arbitrary words |
| `language` | `MCToolchain` | pass | well formed programs are accepted, compiled programs implement the language, and each calculating word does what it says |
| `library` | `MCLibrary` | pass | what the functions of `std.stacksy` write, leave on the stack and leave alone |
| `text` | `MCText` | pass | literals mean what they say, lines are not read past their end, the display agrees with the line table and shows all |
| `debugger` | `MCDebugger` | pass | breakpoints coherent, kept, removed, obeyed; the program undisturbed but for single steps over `SYSCALL`; fresh copies; where `finish` and `next` end; commands end |
| `terminal` | `MCDebuggeeIO` | pass | output, keys and lines arrive in order, all output is shown before the prompt, waiting ends |
| `file_table` | `MCFileTable.cfg` | violation | a second import of a path binds the importer's number to it |
| `division` | `MCDivision.cfg` | violation | `/`, `%`, `divmod` are unsigned |
| `call_stack` | `MCCallStack.cfg` | violation | deep calls overwrite the program's memory |
| `finish_recursion` | `MCFinish.cfg` | violation | `finish` of a recursive function stops when an inner activation returns |
| `string_bytes` | `MCStringBytes.cfg` | violation | a backslash in a string reaches the assembler unescaped |

Deadlock is not checked: reading, compiling and running end, and so does a debugging
session.

**Bounds.** `inclusion`: three files and a fourth path that lower-cases to one of them;
the root and `a` have up to two lines, `b` one, from lines with imports first, last,
twice and between words, self imports and cycles; and the same with a missing file or a
bad word. Two lines are enough to see a suspended line resume and a later line after it,
three files enough for diamonds and cycles of length two and three. `words_to_file`: all
sequences of up to five words that declare, end and call two functions; up to two
declarations or uses before and inside a function; up to four block words in one
function, up to two in each of two functions, and functions left open. Four block words
nest two blocks and reach every crossing of two; two functions are enough for a label to
leak from one into the next. `language`: every operator on the values at the limits of a
word; all pairs of blocks, nested and consecutive, with both conditions; calls forward,
backward, repeated and recursive; segments next to each other at all sizes; faults.
`MaxStack` bounds the value stack of the machine (16 words) and no program of the run
reaches it: the machine would stop, which the liveness part of
`CompiledProgramIsProgram` would report. `CallStackBytes` is 40 instead of 4000, and 24
in `call_stack`, where running out of it is the question. `debugger`: every sequence of
commands on seven programs, a loop over calls across two files with equal line numbers and
an empty function, everything on one line, calls as the last words of two functions, an
`entry` without words, recursion, a fault inside a call, and system calls in the middle of
`entry` and at the end of a function. `MaxBreaks` lets the user
set two breakpoints, anywhere: one in the way of another, on a call, on the return
address of `finish`, on the loop. `Inputs` is how often a conditional jump falls
through: 0 and 1 turns of the loop or levels of recursion, 2 in `finish_recursion`.
`FinishLeaves` and `NextStepsOver` speak of commands that no breakpoint or fault has
stopped, in programs without recursion. `library`: words of 12 bits, so that numbers
have up to four digits; all limits of a word, -2048, whose opposite it has not,
included; one number after another in the shared buffer; texts and inputs of up to two
characters; the smallest buffer of `readstring` that holds a character, and one larger
than the input. `text`: strings of up to three characters, escapes and octal numbers of
each length next to digits; literals cut short anywhere within four characters; every
arrangement of up to four pieces (words, blanks, tabs, newlines, semicolons, quotes,
backslashes and a literal with an escaped quote and a blank in it), with and without an
ended last line; windows of one to three lines, so that a file is shorter than the
window, as long and longer. `terminal`: pipes of three and two characters and a window
of three columns, so that every pipe and the window fill up; a process that prints up to
four characters in whole lines, or in pieces that cut lines and leave blank ones; up to
two letters typed beside that, and four beside a process that hardly prints. Two letters
are enough to see an order changed or a letter doubled.

**Fairness.** The iterator, the compiler, the linker and the processor are single
sequential processes that nothing blocks, so weak fairness of their whole next-state
relation says only that they go on. For the debugger it is `Work`, what it does between
reading a command and asking for the next; the user need not type anything. In
`DebuggeeIO` it is `Turn`, what the debugger's thread does in `waitForDebugee`; neither
user nor process is assumed to do anything, which is why waiting for a process that has
stopped ends though the user does not press a key.
`Turn` is not enabled while `sendString` is blocked. No action is assumed fair on its own.

## 4. Proofs

`CodeIterator_proofs` proves, for every set of paths, every file system in which each
file is a finite sequence of lines of words, and every lower-casing function:

- `TypeCorrect`: `Spec => []TypeOK`. The type invariant is not inductive: that an
  index stays a natural number within its line needs the lines read so far to exist.
  `Shape` adds that every open path but a failed one is on disk and its line number is
  within the file.
- `OpenOnceHolds`, `EachWordOnceHolds`, `NumbersDistinctHolds`. `IInv` strengthens
  them with: every open path is registered; a file that is open has read no place
  beyond its current line and op; every logged word comes from a registered path and,
  when its file is still open, from a place before the file's current one; numbers are
  between 1 and the number of registered paths. Without the ordering of places a word
  could be read again, and without registration a path could be opened again.

- `LocDeclaredHolds`. `LocInv` adds that, while reading, every file on the stack is
  bound to its number by a `.file` directive: the directive of an import is written
  before the import's first word is read, and a file that is imported again gets a
  second directive with another number without losing the first.

- `IsTextualInclusionHolds`, the refinement of `Inclusion`. The text to come is what is
  left of the line of the top file, then its later lines, then the same of the files
  below (`StackText`, over `FrameRest`). `ReadWord` and `ReadImport` take its front as
  `Deliver`, `Include`, `IncludeNothing` or `Fail` do; `NextLine`, `SkipComment` and
  `CloseFile` leave the text as it is, although they change the stack: an ended line has
  no rest, and neither has a file that is closed. The invariant it rests on
  (`CountsWords`) is that `op_nums[-1]` is the number of words that were passed as long
  as there are any left in the line. It does not hold at the end of a line, where the op
  number counts one word more, which is why the mapping takes the rest from the index.

The assumptions are those of `CodeIterator`: `RootAssumption`, `LowerAssumption`,
`FileSystemsAssumption`.

`Compiler_proofs` proves, for every set of programs, that is for every sequence of
words in every order:

- `TypeCorrect` and `BlocksInStepHolds`. `IInv` adds that a word inside a function is
  compiled into the unit of that function (`in_function` and `compile_unit` agree
  while nothing has failed); the length of `has_else` is what makes the pop of
  `if_labels` sound.

From there it goes on to the code, the calls and the jumps:

- `OneUnitHolds`. The property is inductive itself. With it, the exception in `funcdef`
  that guards `compile_unit` cannot be raised unless the program has a lone `#` outside
  a function.
- `FailedFileIsEmptyHolds`. `FileInv`: before the end of the input only sizes of
  segments are outside functions, and the file is written once.
- `FunctionsFramedHolds`. `FrameInv` says of the open function that it starts with its
  prologue and moves `R12` nowhere else, and of every other function that it ends with
  its epilogue as well. `PlainKeeps` shows for the code of every operator, whatever its
  parameters, that no instruction of it has `R12` for its destination.
- `BlockLabelsOnceHolds`. `Once` is the property; `OnlyGiven` says of each label that is
  placed that its number has been taken from the counter, and that its block is not open
  any more when the label is the end of it. A label that an `elihw` or `fi` places is of
  an open block and thus not yet placed (`~Given`), and the stacks being strictly
  increasing (`BlocksInStep`) means that after the pop it is of no open block.
  `OneLabelStep` carries both facts from the label to all lines of all functions.
- `CallsLandHolds`. `CallsKnown` says of every line what labels and calls it can have: a
  word places labels of blocks only, so a label `func_f` is in no function, and a call
  is of a name that was noted in `functions_called`, which names a function once. At the
  end each name of `EmittedFunctions` is given one label at the start of its code; an
  induction over the prefixes of the list (`FlattenAppend`) gives that the output has
  this label in one place.
- `JumpsLandHolds`. What is written is only the functions that something calls, so a label
  in another function is no target, and `BlocksClosed` is needed: each function closes as
  many blocks as it has opened, in whatever order they cross. `Code` says of the open
  function that each of its jumps is to a label that it has placed or to the end of an
  open block (`TargetsKnown`), and that it has placed the start of every open loop
  (`LoopsPlaced`), without which the `JMP` of an `elihw` could go nowhere. `Depths` counts:
  as many blocks are open as words have opened and not closed, so none is open when a
  function begins or ends, and each function that is ended has all its targets itself
  (`Landed`). `FileJumps` carries that to the file through the concatenation of the
  functions written. `PlainStraight` shows that the code of an operator, for all
  parameters that are accepted, has no labels and jumps at all.
- `WellFormedIsAcceptedHolds`. `WellInv` compares the compiler with the grammar, word by
  word: a function is open exactly when `OpenBlocks` is not empty, `while_labels` and
  `if_labels` are as long as there are blocks of their kind open, and the functions,
  segments and constants are those declared by the words read so far. A block word then
  finds its stack not empty, a declaration a new name, a constant its value; at the end all
  functions are there. `NestsExist` and `NeverBad` are the two inductions over the words.

The only assumption used is `ProgramsAssumption`: a program is a sequence of words.

`Words_proofs` and `Toolchain_proofs` go the whole way from the words to the running
machine, for every set of programs and every size of bytes and words. They prove

- `ToolchainInvHolds`, the inductive invariant of `Toolchain`, and from it
- `WordsCalculateHolds`. The argument has four parts.
  1. *What code does.* `Runs(table, line, s, t)` says what one line does to the stack, the
     memory and the registers, as a relation of two states; `StackRuns` and its
     neighbours show that a step of the machine is such a pair. `SumDoes` to `CopyDoes`
     follow the lines of each word, `CodeDoes` puts them together: whatever the machine
     holds, code that has run from its first line to its last has done what `Does` says.
     `WordExecutes` turns that into the step of the language. The comparisons need
     that the whole of `RAX` is cleared, the loads that a word is put together from the
     bytes it was taken apart into, division that no number is negative: the digits
     and the powers behind `Values`, `Digits` and `Value` are in the first part of
     `Words_proofs`.
  2. *Where code stands.* `LayoutInv` says, word by word while the compiler reads, that
     the code of every word of the open and the ended functions is in its function, line
     after line behind the `.loc` of the word, and that no other line is a `.loc`.
     It holds of later words only because the code of a word does not change when strings
     and constants are added (`CodeStays`). `AsmInv` carries it to the whole file, through
     the concatenation of functions, strings and segments (`FileJoined`).
  3. *What the linker does.* The places of objects have ranks from 1 on, one each
     (`Ranks`), so every object is placed; every label has an address or a place
     (`SymbolsAre`), and `call_stack` is the first segment (`CallStackThere`).
  4. *How it runs.* `Sound`: stack, registers and memory hold words and bytes, instruction
     by instruction. `OnTheWay`: since the machine stood at the start of a word that
     calculates it has run the lines of the word, one after the other, without a system
     call and without a move of `R12`. At the next start of a word it has run them all,
     and part 1 applies.

  The steps of other words (jumps, calls, `syscall`, the ends of functions) are free in
  this invariant: they keep `Sound` and start a new way.

The assumptions are `ProgramsAssumption`, `NumbersAssumption` and `BytesAssumption` (eight
bytes make a word) of `Numbers`, `KernelAssumption` of `Machine` (what is read are bytes,
what a system call returns is a word) and
`CallStackAssumption` (`call_stack` has a size), all of them true of the machine.

`Debugger_proofs` proves, for every set of programs and any number of breakpoints:

- `BreakpointsCoherentHolds` and `UserBreakpointsStayHolds`. `Coherent` is the agreement
  of memory and table; the lemmas about `Enable`, `Disable`, `AddBreakpoint` say that
  each keeps it and by what it changes the enabled set. `IInv` adds which breakpoints
  are enabled at each place of `cmd.at`: the user's, and while the process runs freely
  also the one in `cmd.temp`, which is none of the user's. That is needed because
  removing it at the end would otherwise remove one of the user's. When the process is
  gone, nothing is claimed of its memory.
- `StopsAtBreakpointsHolds`, from the same invariant: at a breakpoint the process finds
  `int3`, and `wait` puts it back where it was.

- `CopiesFreshHolds`, from `FreshInv`: where the debugger decides (`prompt`, `stepping`,
  `over`) the copies are those of the process; each wait refreshes them, and while the
  process runs freely, when they are stale, nothing looks at them.

- `TypeCorrect` and `RunsAsAloneHolds`. The first is not inductive as it stands: that
  the process stays within its text rests on the return places it takes from the two
  stacks. `Balanced` says that the program has as many functions open as there are
  return places in `call_stack`, that each of them follows a `call`, and that the value
  stack has a return place on top exactly between a call and the prologue. The
  refinement then says that each wait of the debugger changes the process by one of its
  own instructions or not at all, or puts it into the middle of a `SYSCALL`: the byte that
  is put back before a single step is the program's own (`Coherent`), so what is executed
  is what `ProgramSpec` executes; and a process that runs freely does not stop behind a
  `SYSCALL`, so nobody moves it back.

The assumptions are those of `Debuggee`. `ImagesAssumption` is what the compiler makes
sure of: functions do not overlap, start with a prologue and end with an epilogue, calls
go to functions, every jump stays between the prologue and the epilogue of some
function, `_start` begins the text and there is an `entry` (`JumpsLandHolds`,
`FunctionsFramedHolds` and `CallsLandHolds` above are the reasons); the line table has
addresses of words, and the one behind the text. `MCDebugger` checks it of every image
that `Image!Link` makes.

It also proves, for every set of such images in which each jump also
stays in the function it is in (`BlocksAssumption`: the compiler accepts a block that is
opened in one function and closed in another, and then `finish` has no activation to
speak of):

- `FinishLeavesHolds` and `NextStepsOverHolds`. In a program without recursion the
  functions can be ranked such that a call always goes down (`Ranked`); the functions
  open at one time are then different from each other (`Nested`), so a return address
  that stands on the stack belongs to one activation, and a temporary breakpoint there
  is not met by an inner one. The invariant follows the activation in which the command
  was given through each of the loops: deeper than it while in a callee, at it
  otherwise, or just left; and the place of a command is never the first instruction of
  a prologue, where the return place is still on the value stack and not in
  `call_stack`.

`DebuggeeIO_proofs` proves, for every alphabet, every set of texts the process prints and
every size of window and pipes that holds a line:

- `TypeCorrect`, `TypingInOrderHolds`, `InputInOrderHolds`, `DisplayInOrderHolds`: the type
  and the three refinements of `Stream`. Each rests on an equation about the way of a letter:
  what was typed is the text of what was entered with the window behind it; what was
  sent to the process is what it has taken, with its pipe and the line it is waiting
  to write behind; the letters that got into the pipe are those displayed, then the
  line being assembled, the read buffer and the pipe. That the text of a list of lines
  with one more line is the old text with that line behind it is `FlattenAppend`.
- `OutputShownHolds`. For a process that prints only whole lines (`WholeLines`),
  whatever is in the pipe and the read buffer ends with a newline, `line` is empty
  between two drains, and a process that has stopped at the start of the last turn
  prints nothing more: what the drain of that turn finds is all there is.

The assumptions are `SizesAssumption` (a text fits into the pipe, as 65536 bytes do for
what stacksy's library writes at once; the window is no wider than the other pipe),
`LettersAssumption` and `TextsAssumption` (a write of nothing is not a write).

`SourceView_proofs` proves, for every set of files:

- `TypeCorrect` and `EndedFileIsReadWithinHolds`: the scanner's place is within the line or
  just behind it, and only on a last line without a newline does it look further.
- `AllIsShownHolds`. The characters of the segments that are not white space (`Ink`) are
  those of what has been read, segment by segment.
- `CurrentWordStandsOutHolds`. `ScanInv` describes the compiler's side: words, comments
  and white space tile what was scanned, each word has the line and the op number of its
  place, and a literal ends where a scanner that passes over the character after a
  backslash ends. `PlacesInv` describes the debugger's side at each state of `getSource`
  (blank, in a word, in a literal, in a comment) against the same tiling, and says that
  the word with op number n of a line that is finished is segment 2n of it. Where both
  hold, the segment that `printSource` marks has the first and the last character of the
  word. The attempt showed that `Tidy` had to exclude the white space that Python's
  `split` knows and `getSource` does not (form feeds, for one).
- `CurrentLineVisibleHolds`: the arithmetic of the first line shown, for all heights.
- `StringsAssembleHolds`. `ValuesInv` says that what the scanner has read of a literal is
  a sequence of numbers. The proof goes through the escaped text from its end: each
  character has become a backslash with exactly three digits, so the assembler, which
  takes at most three, stops before the next character even if that is a digit
  (`OneEscaped`, `AssembledFrom`).

The assumption is `FilesAssumption`: a file is a sequence of characters in which CR
stands only before a newline (Python ends a line at a lone one).

Only model-checked, and why:

- `CompiledProgramIsProgram` as a whole: beside `WordsCalculateHolds` it takes where
  each jump, call and return lands, that a well formed program links, and a hypothesis
  for each way in which the two may part (an overrun of `call_stack`, a
  program that computes an address within `call_stack`, a system call with a wrong
  number of arguments, the bound `MaxStack`);
- all of `library`: what the words of `std.stacksy` compute is checked on the programs
  of `Tests`, which are concrete;
- `LiteralsMean`: what a literal should mean is an input of the model, chosen per file;
- liveness (`Terminates`, `CommandsEndFaultFree`, `WaitEnds` and the fairness in the
  refinements), which is out of the prover's reach.

Where an induction was needed it is over the natural numbers below a bound, with a set
in place of a predicate (`AllNat`, `LeastNat` in `SequenceFacts`): a set of numbers that
holds 0 and with each number the next holds all. It serves for the functions that are
defined by recursion over a sequence, `FlattenSeq` among them.

`OpenOnceHolds`, `NumbersDistinctHolds` and the types of `SourceView` are proved and no
longer run: `EachWordOnce`, `LocDeclared` and `CurrentWordStandsOut` rest on them.

## 5. Plan

Done: the word source down to its characters, the compiler, the compiled program, the
library, the debugger core, its display of the source, and its terminal and pipes; the
proofs of section 4. Next:

1. Labels of functions, segments and strings as labels of the whole file: which well
   formed programs always link.
2. The words that jump, call and return: that their code arrives where the language says.

## 6. Not modelled

- The vendored libraries: ncurses, libelfin-fbreg and linenoise, third-party code that
  makes up almost all lines under `src/debugger`. The map covers the repository's own
  code: Python, the debugger's sources and `std.stacksy`.
- Reading ELF and DWARF, the load address and several compilation units: the compiler
  writes one (`debuginfo.cpp`).
- What `printStack` and `inspectVariable` show, colours, resizing, and moving and
  deleting in the input line (`debuggerview.cpp`); the drawing functions of
  `ncursesHelpers.cpp`, which keep no state that another part reads.
- The 32-bit limit of `PUSH` immediates: a scaled word is as wide as an immediate.
- `gameoflife.stacksy` and `unit_tests/`: programs in the language.

Known and not checked as properties. The word source and the compiler:

- `import:` lower-cases the path (`README.md:11` does not say so); two spellings of one
  path are two files. GNU as refuses the second `.file` with one number, so a program in
  which a file is imported twice cannot be assembled.
- A lone `#` outside a function declares a function without a name, and the next
  declaration ends in the exception of `main.py:295`. A word that begins with `:` outside
  a function ends the compiler with an `IndexError` (`Parser.py:37`).
- A block that is open from one function to the next is accepted. `#f while # #entry elihw #`
  writes `JMP while_0` without the label, because `f` is not called and not written
  (`main.py:482-483`), and the linker refuses it (`BlocksClosed` excludes it).
- `README.md:40` takes the `n` of `syscall:n` for the number of the call; the code and
  `std.stacksy` take it for the count of arguments (see section 2).
- After a `CodeException` the exit status is 0, and `unit_tests/run_tests.sh:4` goes on.
- An `if` with two `else` defines `endif` twice; the name after `@` in a function is not
  looked up; a segment's name can meet a label of the compiler, or the end of another
  segment.
- `'\\'` is refused by `get_char`, which gets what has been unescaped already; codes
  beyond 255 take two bytes in `.ascii` and count as one.
- A line is read past its end only when it is the last and has no newline.

The debugger:

- After a segmentation fault `mRunning` stays true and the instruction faults again on
  every step: `step` and `next` never return.
- A single step over `SYSCALL` is reported like a breakpoint, and `RIP` is moved back
  into the instruction (`debugger.cpp:323`): from there on the program runs other code
  than its own. `step` and `next` do it wherever a `syscall:n` is; `RunsAsAlone` names
  the step, `LandsInside`.
- `b line col` of the last word of a program puts the breakpoint behind the code, because
  the row that ends the line table has the same place and comes last
  (`debuginfo.cpp:250-251`); the word does not stop there.
- `next` over a recursive call stops in the callee. `b line` is refused for a line that
  begins with `#name`, which has no row at column 1. A segment with a name that starts
  with `func_` makes the lookup of functions throw.
- The comment on `sameLine` in `debuginfo` says it holds when either entry has no line;
  it is false when only the old one has none.
- A quote in a comment, a tab after a word and a character right after a closing quote
  make the marks of a line wrong (these are what `Tidy` excludes). The last line of a
  file may be under the border when it has no newline. A lone CR ends a line for Python
  and is a blank for the view.
- A letter in the last column of the input is lost, and a blank line makes the search
  for its end read one byte before the buffer (`ncursesHelpers.cpp:53`).
- A process that prints without end keeps the drain loop going (`debuggerview.cpp:454`), and
  `updateWindows` is called outside the `try` (`debuggerview.cpp:149`).

The library:

- `temp` is shared by `to_string` and `readbyte`; at the end of the input `readbyte`
  gives what the last number left there.
- `unit_tests/shapes.stacksy` defines `printn` again after importing it (`std.stacksy:386`),
  which the compiler refuses.
