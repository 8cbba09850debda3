------------------------------ MODULE PodLogs ------------------------------
(***************************************************************************)
(* The log view of a pod: btnLog reads the end of the pod's log, splits it *)
(* into lines, parses each line as the settings say and shows the result   *)
(* (getPodLogs, detectLogType and nthSubstr in source/kubernetes/          *)
(* KubernetesClient.cpp; the settings are read in Eks.cpp).                *)
(*                                                                         *)
(* The pod goes on writing between two reads.  The settings do not change  *)
(* in a behaviour: a read takes all of them at its start, and nothing that *)
(* an earlier read has shown is left when it ends.                         *)
(***************************************************************************)
EXTENDS Integers, Sequences, FiniteSets, SequencesExt

CONSTANTS
  MaxLog,      \* bound on what the pod writes
  TailLines,   \* the API server sends that many lines, the last ones (20)
  MaxColumn    \* bound on the column number in the settings

ASSUME BoundsAssumption ==
  MaxLog \in Nat /\ TailLines \in Nat \ {0} /\ MaxColumn \in Nat

\* The characters that the parsers tell apart; "x" is any other one.  Where the
\* delimiter is SPACE, "comma" stands for the space and a comma is an "x": the
\* code treats the two alike, as detectLogType looks for "{" and tabs only.
Chars    == {"x", "{", "comma", "tab", "newline"}
Parsers  == {"Auto", "JSON", "CSV", "Text"}
Settings == [logParser : Parsers, csvDelimiter : {"comma", "tab"}, csvColumn : 0 .. MaxColumn]

VARIABLES
  log,        \* what the pod has written
  settings,   \* settings/kubernetes
  view,       \* the lines shown
  read,       \* history: the log when it was read last
  crashed     \* a null text was made a std::string

vars == << log, settings, view, read, crashed >>

TypeOK ==
  /\ log \in Seq(Chars)
  /\ Len(log) <= MaxLog
  /\ settings \in Settings
  /\ view \in Seq(Seq(Chars \ {"newline"}))
  /\ Len(view) <= TailLines
  /\ IsPrefix(read, log)
  /\ crashed \in BOOLEAN

Init ==
  /\ log = << >>
  /\ settings \in Settings
  /\ view = << >>
  /\ read = << >>
  /\ crashed = FALSE

-----------------------------------------------------------------------------
(***************************************************************************)
(* Lines.                                                                  *)
(***************************************************************************)
\* After k characters: the lines that a newline has ended, and the open one.
Split(text) ==
  LET split[k \in 0 .. Len(text)] ==
        IF k = 0 THEN [done |-> << >>, open |-> << >>]
        ELSE IF text[k] = "newline"
        THEN [done |-> Append(split[k - 1].done, split[k - 1].open), open |-> << >>]
        ELSE [done |-> split[k - 1].done, open |-> Append(split[k - 1].open, text[k])]
  IN  split

\* What std::getline yields: no line after the last newline.
Lines(text) ==
  LET end == Split(text)[Len(text)]
  IN  end.done \o (IF end.open = << >> THEN << >> ELSE << end.open >>)

\* Mutant: one line less is asked for.
FetchedFewer(text) ==
  LET lines == Lines(text)
      first == IF Len(lines) >= TailLines THEN Len(lines) - TailLines + 2 ELSE 1
  IN  SubSeq(lines, first, Len(lines))

Fetched(text) ==
  LET lines == Lines(text)
      first == IF Len(lines) > TailLines THEN Len(lines) - TailLines + 1 ELSE 1
  IN  SubSeq(lines, first, Len(lines))

-----------------------------------------------------------------------------
(***************************************************************************)
(* Parsing.  Positions count from 1 and NoPos is std::string::npos, so the *)
(* search that the code starts at npos + 1 starts at the first position.   *)
(***************************************************************************)
NoPos == 0

Find(line, p, from) ==
  LET hits == {k \in from .. Len(line) : line[k] = p}
  IN  IF hits = {} THEN NoPos ELSE Min(hits)

\* Mutant: a delimiter right after another one also ends a column.
EndsEmptyColumn(found, last) == found - last >= 1

EndsColumn(found, last) == found - last > 1

\* The two variables of the loop after k rounds; each round finds a delimiter
\* further on, or is the last one and returns npos.
Rounds(n, line, p) ==
  LET loop[k \in 0 .. Len(line)] ==
        IF k = 0 THEN [curN |-> 1, last |-> Find(line, p, 1)]
        ELSE LET last  == loop[k - 1].last
                 curN  == loop[k - 1].curN
                 found == Find(line, p, last + 1)
             IN  IF curN >= n THEN loop[k - 1]
                 ELSE IF found = NoPos THEN [curN |-> n, last |-> NoPos]
                 ELSE [curN |-> IF EndsColumn(found, last) THEN curN + 1 ELSE curN,
                       last |-> found]
  IN  loop

NthSubstr(n, line, p) == Rounds(n, line, p)[Len(line)].last

DetectLogType(lines) ==
  CASE lines # << >> /\ lines[1] # << >> /\ lines[1][1] = "{" -> "JSON"
    [] OTHER -> IF \E i \in DOMAIN lines : "tab" \in ToSet(lines[i]) THEN "CSV" ELSE "Text"

ParserFor(lines) ==
  IF settings.logParser = "Auto" THEN DetectLogType(lines) ELSE settings.logParser

\* The text of the configured field; empty if the line is no JSON object.
FieldOf(line) ==
  IF line # << >> /\ line[1] = "{" THEN Tail(line) ELSE << >>

FromColumn(line) ==
  LET start == NthSubstr(settings.csvColumn, line, settings.csvDelimiter)
  IN  IF start = NoPos THEN << >> ELSE << SubSeq(line, start, Len(line)) >>

\* Mutant: a line that yields no text is skipped.
ParsedNotEmpty(parser, line) ==
  CASE parser = "JSON" -> IF FieldOf(line) = << >> THEN << >> ELSE << FieldOf(line) >>
    [] parser = "CSV"  -> FromColumn(line)
    [] parser = "Text" -> << line >>

Parsed(parser, line) ==
  CASE parser = "JSON" -> << FieldOf(line) >>
    [] parser = "CSV"  -> FromColumn(line)
    [] parser = "Text" -> << line >>

Shown(text) ==
  LET lines == Fetched(text)
  IN  FlattenSeq([i \in DOMAIN lines |-> Parsed(ParserFor(lines), lines[i])])

-----------------------------------------------------------------------------
PodWrites(c) ==
  /\ Len(log) < MaxLog
  /\ log' = Append(log, c)
  /\ UNCHANGED << settings, view, read, crashed >>

\* Mutant: the view is not cleared.
LogMore(lines) == view' = view \o lines

\* Logger::clear, then Logger::log for each line.
LogAll(lines) == view' = lines

\* A request that fails may yield no text, and a null pointer is then made a
\* std::string.
BtnLog ==
  /\ ~crashed
  /\ \/ /\ LogAll(Shown(log))
        /\ read' = log
        /\ UNCHANGED crashed
     \/ /\ crashed' = TRUE
        /\ UNCHANGED << view, read >>
  /\ UNCHANGED << log, settings >>

Next == BtnLog \/ \E c \in Chars : PodWrites(c)

Spec == Init /\ [][Next]_vars

-----------------------------------------------------------------------------
ParserUsed == ParserFor(Fetched(read))

\* Where a run of adjacent delimiters begins: what ends a column.
Runs(line) ==
  {k \in DOMAIN line : /\ line[k] = settings.csvDelimiter
                       /\ k = 1 \/ line[k - 1] # settings.csvDelimiter}

Column     == IF settings.csvColumn = 0 THEN 1 ELSE settings.csvColumn
NthRun(line) == CHOOSE k \in Runs(line) : Cardinality({j \in Runs(line) : j <= k}) = Column

\* Reference definition of the loop in nthSubstr: with the CSV parser a line is
\* shown from its n-th run of delimiters on, and the lines left out are those
\* that have fewer runs, for every line and column number.
FromNthRun(line) ==
  IF Cardinality(Runs(line)) < Column THEN << >>
  ELSE << SubSeq(line, NthRun(line), Len(line)) >>
CsvShownFromColumn ==
  LET lines == Fetched(read)
  IN  ParserUsed = "CSV" => view = FlattenSeq([i \in DOMAIN lines |-> FromNthRun(lines[i])])

\* The other parsers leave no line out and show none twice, whatever was shown
\* before: the view has one line for each line received.
NoLineLost == ParserUsed # "CSV" => Len(view) = Len(Fetched(read))

\* Reading a longer log again shows again what was there, but for the line that
\* the pod was still writing, as long as the server sends the whole log and the
\* parser found by detectLogType is the same.
Complete(lines) == IF lines = << >> THEN << >> ELSE Front(lines)
RereadExtends ==
  [][Len(Lines(log)) <= TailLines /\ ParserUsed = ParserFor(Fetched(log)) =>
       IsPrefix(Complete(view), view')]_vars
=============================================================================
