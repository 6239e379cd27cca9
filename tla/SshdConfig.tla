----------------------------- MODULE SshdConfig -----------------------------
(***************************************************************************)
(* How the lab executor reads and edits sshd_config                                *)
(* (src/backend/app/tools/sshd_config.py and the editor of                   *)
(* src/backend/app/tools/harden_ssh.py).                                     *)
(*                                                                           *)
(* A line sets a managed setting, opens a Match block, includes the drop-in  *)
(* directory or is one sshd could not read; comments and other keywords are  *)
(* left out.  A setting is TRUE when it has the value hardening asks for.    *)
(* The drop-in directory is one file: the glob that names it is the only     *)
(* Include pattern, so a file in it that includes it again nests for ever.   *)
(***************************************************************************)
EXTENDS Naturals, Sequences, FiniteSets, SequencesExt, FiniteSetsExt

CONSTANTS
  Settings,    \* the managed settings, numbers
  Defaults,    \* setting -> what sshd uses where no file sets it
  Conditions   \* what a Match line may ask of a connection

ASSUME SshdConfigAssumption ==
  /\ Settings \subseteq Nat /\ IsFiniteSet(Settings)
  /\ Defaults \in [Settings -> BOOLEAN] /\ IsFiniteSet(Conditions)

Everyone == "everyone"   \* match is None: the global section

SetLine(n, v) == [kind |-> "set", name |-> n, value |-> v]
MatchLine(c) == [kind |-> "match", when |-> c]
IncludeLine == [kind |-> "include"]
BadLine == [kind |-> "bad"]

Nothing == [directives |-> <<>>, problems |-> FALSE, current |-> Everyone]

\* _read_file of a drop-in, reached under the Match line `current`.
Line(seen, line) ==
  CASE line.kind = "set" ->
         [seen EXCEPT !.directives =
            Append(@, [name |-> line.name, value |-> line.value, match |-> seen.current])]
    [] line.kind = "match" -> [seen EXCEPT !.current = line.when]
    [] OTHER -> [seen EXCEPT !.problems = TRUE]
ReadDropin(dropinFile, seen) == [FoldLeft(Line, seen, dropinFile) EXCEPT !.current = seen.current]

\* read, _read_file, _include: every directive in the order sshd meets them.
Read(mainFile, dropinFile) ==
  FoldLeft(LAMBDA seen, line :
             IF line.kind = "include" THEN ReadDropin(dropinFile, seen) ELSE Line(seen, line),
           Nothing, mainFile)

\* The directives of a setting under the Match lines `within`.
Asking(config, n, within) ==
  {k \in DOMAIN config.directives :
     config.directives[k].name = n /\ config.directives[k].match \in within}

\* Config.effective: the first global directive, or sshd's default.
Effective(config, n) ==
  LET first == Asking(config, n, {Everyone})
  IN  IF first = {} THEN [value |-> Defaults[n], from |-> 0]
      ELSE [value |-> config.directives[Min(first)].value, from |-> Min(first)]
\* Config.conditional
Conditional(config, n) == Asking(config, n, Conditions)

\* HardenSshExecutor.state
HostState(mainFile, dropinFile) == [n \in Settings |-> Effective(Read(mainFile, dropinFile), n)]

\* HardenSshExecutor.verify
Verify(mainFile, dropinFile, wanted) ==
  LET config == Read(mainFile, dropinFile)
  IN  /\ ~config.problems
      /\ \A n \in wanted :
           /\ Effective(config, n).value
           /\ \A k \in Conditional(config, n) : config.directives[k].value

\* _edit: the first directive of each wanted setting above the first Match line is
\* rewritten, and what is missing goes in front of that line.
Global(lines) ==
  LET matches == {k \in DOMAIN lines : lines[k].kind = "match"}
  IN  IF matches = {} THEN Len(lines) ELSE Min(matches) - 1
Edit(lines, wanted) ==
  LET top == Global(lines)
      Sets(n) == {k \in 1 .. top : lines[k].kind = "set" /\ lines[k].name = n}
      missing == {n \in wanted : Sets(n) = {}}
      firsts == {Min(Sets(n)) : n \in wanted \ missing}
      rewritten == [k \in DOMAIN lines |->
                      IF k \in firsts THEN SetLine(lines[k].name, TRUE) ELSE lines[k]]
      added == [k \in 1 .. Cardinality(missing) |-> SetLine(SetToSortSeq(missing, <)[k], TRUE)]
  IN  SubSeq(rewritten, 1, top) \o added \o SubSeq(rewritten, top + 1, Len(lines))

\* sshd itself, as the code relies on it: for a connection that satisfies the
\* conditions `met`, the first directive of a block that applies, or the first
\* global one.
Served(config, n, met) ==
  LET first == Asking(config, n, met)
  IN  IF first # {} THEN config.directives[Min(first)].value ELSE Effective(config, n).value
Enforced(mainFile, dropinFile, wanted) ==
  \A n \in wanted, met \in SUBSET Conditions : Served(Read(mainFile, dropinFile), n, met)
=============================================================================
