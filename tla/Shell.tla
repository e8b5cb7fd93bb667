-------------------------------- MODULE Shell --------------------------------
(* The shells: the parser and runcmd() of sh.c, and those of nsh.c.  A line   *)
(* is a sequence of characters, of which "a" stands for every one that is     *)
(* neither white space nor a symbol; it is typed one character at a time, and *)
(* what the shells make of it is a function of the line.                      *)
EXTENDS Integers, Sequences, FiniteSets

CONSTANTS MAXARGS,   \* arguments of a command, the last one NULL
          Alphabets  \* bound: the characters lines are made of, and how many

VARIABLE line

Chars == {"a", " ", "<", ">", "|", "&", ";", "(", ")"}
symbols == {"<", ">", "|", "&", ";", "(", ")"}

ShInit == line = <<>>
Type(c) == line' = Append(line, c)
ShNext == \E A \in Alphabets : \E c \in A.chars \cap Chars :
            /\ Len(line) < A.max /\ \A k \in DOMAIN line : line[k] \in A.chars
            /\ Type(c)
ShSpec == ShInit /\ [][ShNext]_line

-----------------------------------------------------------------------------
(* sh.c: tokens                                                            *)

\* The first position from i on with none of these characters.
After(l, i, chars) ==
  LET S == {j \in i..Len(l) : l[j] \notin chars} IN
  IF S = {} THEN Len(l) + 1 ELSE CHOOSE j \in S : \A k \in S : j <= k
Skip(l, i) == After(l, i, {" "})
InWord == Chars \ (symbols \cup {" "})

\* gettoken(): the token at i, its first position and the one after its last,
\* and where the next one starts; tok is "0" at the end of the line.
Token(l, tok, q, eq) == [tok |-> tok, q |-> q, eq |-> eq, next |-> Skip(l, eq)]
TokenAt(l, s) ==
  IF s > Len(l) THEN Token(l, "0", s, s)
  ELSE IF l[s] = ">" /\ s < Len(l) /\ l[s + 1] = ">" THEN Token(l, "+", s, s + 2)
  ELSE IF l[s] \in symbols THEN Token(l, l[s], s, s + 1)
  ELSE Token(l, "a", s, After(l, s, InWord))
gettoken(l, i) == TokenAt(l, Skip(l, i))
peek(l, i, toks) == Skip(l, i) <= Len(l) /\ l[Skip(l, i)] \in toks

-----------------------------------------------------------------------------
(* sh.c: parser.  A result is [c, i, ok]: command, position, no syntax error. *)
(* A word is the pair of positions that nulterminate() makes a string of.     *)

execcmd(argv) == [t |-> "exec", argv |-> argv]
redircmd(c, fd, file) == [t |-> "redir", c |-> c, fd |-> fd, file |-> file]
pipecmd(a, b) == [t |-> "pipe", l |-> a, r |-> b]
listcmd(a, b) == [t |-> "list", l |-> a, r |-> b]
backcmd(c) == [t |-> "back", c |-> c]
Bad(r) == [r EXCEPT !.ok = FALSE]

\* parseredirs(): each redirection is wrapped around the command.
RECURSIVE parseredirs(_, _)
Redir(l, r, op, f) ==
  IF f.tok # "a" THEN Bad(r)
  ELSE parseredirs(l, [c |-> redircmd(r.c, IF op = "<" THEN 0 ELSE 1, <<f.q, f.eq>>),
                       i |-> f.next, ok |-> TRUE])
RedirOp(l, r, g) == Redir(l, r, g.tok, gettoken(l, g.next))
parseredirs(l, r) ==
  IF r.ok /\ peek(l, r.i, {"<", ">"}) THEN RedirOp(l, r, gettoken(l, r.i)) ELSE r

\* parseexec(): arguments go into the command inside the redirections.
RECURSIVE AddArg(_, _)
AddArg(c, w) == IF c.t = "exec" THEN execcmd(Append(c.argv, w))
                ELSE redircmd(AddArg(c.c, w), c.fd, c.file)
RECURSIVE Args(_, _, _)
Arg(l, r, argc, g) ==
  IF g.tok = "0" THEN r
  ELSE IF g.tok # "a" \/ argc + 1 >= MAXARGS THEN Bad(r)
  ELSE Args(l, parseredirs(l, [r EXCEPT !.c = AddArg(@, <<g.q, g.eq>>), !.i = g.next]), argc + 1)
Args(l, r, argc) ==
  IF ~r.ok \/ peek(l, r.i, {"|", ")", "&", ";"}) THEN r
  ELSE Arg(l, r, argc, gettoken(l, r.i))

RECURSIVE parseline(_, _)
Closed(l, r) == IF r.ok /\ peek(l, r.i, {")"})
                THEN parseredirs(l, [r EXCEPT !.i = gettoken(l, r.i).next]) ELSE Bad(r)
parseblock(l, i) == Closed(l, parseline(l, gettoken(l, i).next))
parseexec(l, i) ==
  IF peek(l, i, {"("}) THEN parseblock(l, i)
  ELSE Args(l, parseredirs(l, [c |-> execcmd(<<>>), i |-> i, ok |-> TRUE]), 0)

\* a | b | c is a | (b | c); a ; b ; c is a ; (b ; c).
Piped(r, s) == [c |-> pipecmd(r.c, s.c), i |-> s.i, ok |-> s.ok]
RECURSIVE PipeRest(_, _)
PipeRest(l, r) ==
  IF r.ok /\ peek(l, r.i, {"|"})
  THEN Piped(r, PipeRest(l, parseexec(l, gettoken(l, r.i).next))) ELSE r
parsepipe(l, i) == PipeRest(l, parseexec(l, i))
Listed(r, s) == [c |-> listcmd(r.c, s.c), i |-> s.i, ok |-> s.ok]
RECURSIVE Backs(_, _)
Backs(l, r) == IF r.ok /\ peek(l, r.i, {"&"})
               THEN Backs(l, [r EXCEPT !.c = backcmd(@), !.i = gettoken(l, r.i).next]) ELSE r
ListRest(l, r) == IF r.ok /\ peek(l, r.i, {";"})
                  THEN Listed(r, parseline(l, gettoken(l, r.i).next)) ELSE r
parseline(l, i) == ListRest(l, Backs(l, parsepipe(l, i)))

NoCommand == execcmd(<<>>)
Parsed(l, r) == IF r.ok /\ Skip(l, r.i) > Len(l) THEN r.c ELSE [t |-> "syntax"]
parsecmd(l) == Parsed(l, parseline(l, 1))

-----------------------------------------------------------------------------
(* nsh.c: words end at white space only; after each word parseredir() looks   *)
(* for one redirection; gettoken() takes < and > for words elsewhere; | .      *)

NshTokenAt(l, s) ==
  IF s > Len(l) THEN Token(l, "0", s, s)
  ELSE IF l[s] \in {"|", "<", ">"} THEN Token(l, l[s], s, s + 1)
  ELSE Token(l, "a", s, After(l, s, Chars \ {" "}))
nsh_gettoken(l, i) == NshTokenAt(l, Skip(l, i))
NshFile(r, op, f) == [c |-> redircmd(r.c, IF op = "<" THEN 0 ELSE 1, <<f.q, f.eq>>),
                      i |-> f.next, ok |-> TRUE]
NshRedir(l, r, g) == NshFile(r, g.tok, nsh_gettoken(l, g.next))
\* Mutant: the scan goes on at the file, which becomes an argument too.
NshKeptMutant(l, r, g) == [NshRedir(l, r, g) EXCEPT !.i = g.next]
NshRedirAt(l, r, g) == NshRedir(l, r, g)
nsh_parseredir(l, r) ==
  IF peek(l, r.i, {"<", ">"}) THEN NshRedirAt(l, r, nsh_gettoken(l, r.i)) ELSE r
RECURSIVE NshArgs(_, _)
NshArg(l, r, g) ==
  IF g.tok = "0" THEN r
  ELSE NshArgs(l, nsh_parseredir(l, [r EXCEPT !.c = AddArg(@, <<g.q, g.eq>>), !.i = g.next]))
NshArgs(l, r) == IF peek(l, r.i, {"|"}) THEN r ELSE NshArg(l, r, nsh_gettoken(l, r.i))
RECURSIVE NshFrom(_, _)
NshPipe(l, r) == IF peek(l, r.i, {"|"})
                 THEN Piped(r, NshFrom(l, nsh_gettoken(l, r.i).next)) ELSE r
NshFrom(l, i) == NshPipe(l, NshArgs(l, [c |-> NoCommand, i |-> i, ok |-> TRUE]))
nsh_parsecmd(l) == NshFrom(l, 1).c

-----------------------------------------------------------------------------
(* runcmd() of sh.c.  Descriptors are a function to objects; a pipe             *)
(* is named by the place of its command in the tree.                          *)

ShFds == 0..5
Closed0 == <<"none", <<>>, "">>
Tty == [fd \in ShFds |-> IF fd < 3 THEN <<"tty", <<>>, "">> ELSE Closed0]
LowestFd(f) == CHOOSE fd \in ShFds : f[fd] = Closed0 /\ \A g \in 0..fd - 1 : f[g] # Closed0
close(f, fd) == [f EXCEPT ![fd] = Closed0]
New(f, o) == [f EXCEPT ![LowestFd(f)] = o]
dup(f, fd) == New(f, f[fd])

\* One side of a pipe: the descriptor becomes end p, both ends are closed.
Side(f, fd, p, p0, p1) == close(close(dup(close(f, fd), p), p0), p1)
\* Mutant: the write end is left open on the reading side.
SideMutant(f, fd, p, p0, p1) == close(dup(close(f, fd), p), p0)
PipeSide(f, fd, p, p0, p1) == Side(f, fd, p, p0, p1)

\* The processes: those that run a program, and those that wait for a pipe.
RECURSIVE runcmd(_, _, _)
RunPipe(c, f, at, p0, p1) ==
  runcmd(c.l, PipeSide(f, 1, p1, p0, p1), Append(at, 1))
  \cup runcmd(c.r, PipeSide(f, 0, p0, p0, p1), Append(at, 2))
  \cup {[argv |-> <<>>, fds |-> close(close(f, p0), p1)]}
WithWrite(c, f, at, p0) == RunPipe(c, New(f, <<"pipe", at, "w">>), at, p0, LowestFd(f))
runcmd(c, f, at) ==
  CASE c.t = "exec" -> IF c.argv = <<>> THEN {} ELSE {[argv |-> c.argv, fds |-> f]}
    [] c.t = "redir" -> runcmd(c.c, New(close(f, c.fd), <<"file", c.file, "">>), at)
    [] c.t = "list" -> runcmd(c.l, f, Append(at, 1)) \cup runcmd(c.r, f, Append(at, 2))
    [] c.t = "pipe" -> WithWrite(c, New(f, <<"pipe", at, "r">>), at, LowestFd(f))
    [] c.t = "back" -> runcmd(c.c, f, at)
    [] OTHER -> {}

-----------------------------------------------------------------------------
(* Reference: the grammar, by splitting a token sequence at its operators.   *)

RECURSIVE Tokens(_, _)
Tokens(l, i) == IF gettoken(l, i).tok = "0" THEN <<>>
                ELSE <<gettoken(l, i)>> \o Tokens(l, gettoken(l, i).eq)
Depth(ts, j) == Cardinality({k \in 1..j - 1 : ts[k].tok = "("})
                - Cardinality({k \in 1..j - 1 : ts[k].tok = ")"})
Tops(ts, op) == {j \in DOMAIN ts : ts[j].tok = op /\ Depth(ts, j) = 0}
First(S) == CHOOSE j \in S : \A k \in S : j <= k
Before(ts, j) == SubSeq(ts, 1, j - 1)
Behind(ts, j) == SubSeq(ts, j + 1, Len(ts))
Wrong == [t |-> "syntax"]
Node(op, a, b) == IF a = Wrong \/ b = Wrong THEN Wrong ELSE [t |-> op, l |-> a, r |-> b]

\* Redirections ts around c, the first one innermost.
RECURSIVE RefRedirs(_, _)
RefRedirs(c, ts) ==
  IF ts = <<>> \/ c = Wrong THEN c
  ELSE IF Len(ts) < 2 \/ ts[1].tok \notin {"<", ">", "+"} \/ ts[2].tok # "a" THEN Wrong
  ELSE RefRedirs(redircmd(c, IF ts[1].tok = "<" THEN 0 ELSE 1, <<ts[2].q, ts[2].eq>>),
                 SubSeq(ts, 3, Len(ts)))
IsRedir(ts, j) == ts[j].tok \in {"<", ">", "+"}
IsFile(ts, j) == j > 1 /\ IsRedir(ts, j - 1)
Pick(ts, S) == [k \in 1..Cardinality(S) |->
                  ts[CHOOSE j \in S : Cardinality({i \in S : i < j}) = k - 1]]
RefSimple(ts) ==
  LET red == {j \in DOMAIN ts : IsRedir(ts, j) \/ IsFile(ts, j)}
      words == Pick(ts, DOMAIN ts \ red) IN
  IF Len(words) >= MAXARGS \/ \E k \in DOMAIN words : words[k].tok # "a" THEN Wrong
  ELSE RefRedirs(execcmd([k \in DOMAIN words |-> <<words[k].q, words[k].eq>>]), Pick(ts, red))
RECURSIVE RefLine(_)
RefCmd(ts) ==
  IF ts = <<>> \/ ts[1].tok # "(" THEN RefSimple(ts)
  ELSE LET ends == {j \in 2..Len(ts) : ts[j].tok = ")" /\ Depth(ts, j) = 1} IN
       IF ends = {} THEN Wrong
       ELSE RefRedirs(RefLine(SubSeq(ts, 2, First(ends) - 1)), Behind(ts, First(ends)))
RECURSIVE RefPipe(_)
RefPipe(ts) == IF Tops(ts, "|") = {} THEN RefCmd(ts)
               ELSE Node("pipe", RefCmd(Before(ts, First(Tops(ts, "|")))),
                                 RefPipe(Behind(ts, First(Tops(ts, "|")))))
RECURSIVE RefBack(_)
RefBack(ts) == IF Len(ts) \notin Tops(ts, "&") THEN RefPipe(ts)
               ELSE IF RefBack(Before(ts, Len(ts))) = Wrong THEN Wrong
               ELSE backcmd(RefBack(Before(ts, Len(ts))))
RefLine(ts) == IF Tops(ts, ";") = {} THEN RefBack(ts)
               ELSE Node("list", RefBack(Before(ts, First(Tops(ts, ";")))),
                                 RefLine(Behind(ts, First(Tops(ts, ";")))))

\* Reference: what each program reads and writes.
RECURSIVE Streams(_, _, _, _)
Streams(c, in, out, at) ==
  CASE c.t = "exec" -> IF c.argv = <<>> THEN {} ELSE {<<c.argv, in, out>>}
    [] c.t = "redir" -> IF c.fd = 0 THEN Streams(c.c, <<"file", c.file, "">>, out, at)
                                   ELSE Streams(c.c, in, <<"file", c.file, "">>, at)
    [] c.t = "pipe" -> Streams(c.l, in, <<"pipe", at, "w">>, Append(at, 1))
                       \cup Streams(c.r, <<"pipe", at, "r">>, out, Append(at, 2))
    [] c.t = "list" -> Streams(c.l, in, out, Append(at, 1))
                       \cup Streams(c.r, in, out, Append(at, 2))
    [] c.t = "back" -> Streams(c.c, in, out, at)
    [] OTHER -> {}

\* The lines nsh has a grammar for: words that blanks end, | , < and > .
NshLine(l, ts) ==
  \A j \in DOMAIN ts :
    /\ ts[j].tok \in {"a", "|", "<", ">"}
    /\ ts[j].tok = "a" /\ ts[j].eq <= Len(l) => l[ts[j].eq] = " "
\* nsh reads token j as the start of a redirection only behind a word that is not
\* a file itself; otherwise < or > is a word, and the file behind it another.
NshRedirs(ts) ==
  LET R[j \in 1..Len(ts)] == IsRedir(ts, j) /\ j > 1 /\ ts[j - 1].tok # "|"
                                /\ ~R[j - 1] /\ ~(j > 2 /\ R[j - 2]) IN
  {j \in DOMAIN ts : R[j]}
NshReads(ts) ==
  [j \in DOMAIN ts |-> IF IsRedir(ts, j) /\ j \notin NshRedirs(ts)
                       THEN [ts[j] EXCEPT !.tok = "a"] ELSE ts[j]]

-----------------------------------------------------------------------------
(* Properties                                                              *)

\* sh's parsecmd() builds the tree of the grammar for every line, and refuses just
\* the lines outside it: ; binds weaker than &, & weaker than |, a block closes
\* where its parenthesis does, and each redirection stays with its command.
ShParses == parsecmd(line) = RefLine(Tokens(line, 1))

\* nsh's parsecmd() builds, for every such line, the tree of the same grammar with
\* at most one redirection behind each word: a second one in a row, and one that
\* comes first, become words of the command.  So "grep x < README > out" writes
\* no file, the test "both redirections" of testsh that nsh fails.  (Lines that sh
\* accepts, with fewer than MAXARGS words: nsh does not count them.)
NshParses ==
  LET ts == Tokens(line, 1)
      tree == RefPipe(NshReads(ts)) IN
  NshLine(line, ts) /\ Wrong \notin {parsecmd(line), tree} => nsh_parsecmd(line) = tree

\* Every program a line starts has descriptors 0, 1 and 2 and no others, and its
\* input and output are the ones the line says; a process that only waits holds
\* no end of a pipe.  So a reader sees the end of its input once the writers on
\* its left are done, however pipes, lists and redirections are nested.
ShWires ==
  LET ps == runcmd(parsecmd(line), Tty, <<>>) IN
  /\ \A p \in ps : {fd \in ShFds : p.fds[fd] # Closed0} = 0..2
  /\ {<<p.argv, p.fds[0], p.fds[1]>> : p \in {q \in ps : q.argv # <<>>}}
       = Streams(parsecmd(line), Tty[0], Tty[1], <<>>)

\* What sh runs for a line is what the line says: the tree, and from it the
\* processes with their descriptors.
ShRuns == ShParses /\ ShWires
=============================================================================
