------------------------------- MODULE IniFile -------------------------------
(***************************************************************************)
(* libspider/IniFile.cpp as the crawler uses it: TCrawler::start holds one  *)
(* object over crowdspider.conf while every THttpCli makes another and      *)
(* drops it, and each destructor writes the whole file again.  The process  *)
(* may end between any two writes.                                          *)
(*                                                                          *)
(* A line of the file is <<"sect", s>>, <<"pair", k, v, blanks, comment>>   *)
(* (blanks after the '=', a comment after the value), <<"other">>, or       *)
(* <<"long">>: more than MAX_CONFIG_LINE_LENGTH.                            *)
(***************************************************************************)
EXTENDS Integers, Sequences, SequencesExt

CONSTANTS
  IniNames,   \* sections and keys, <<s, k>>, in the order of the map
  IniValues,  \* the values: sequences of characters other than blanks
  IniEdits    \* the sequences of lines an administrator may save

IniKeys == ToSet(IniNames)
IniObjects == {"start", "client"}

\* A section has a name, and the map keeps its keys together.
ASSUME IniAssumption ==
  /\ IniNames \in Seq(STRING \X STRING)
  /\ \A k \in IniKeys : k[1] # ""
  /\ \A i, j, n \in DOMAIN IniNames :
       i < j /\ j < n /\ IniNames[i][1] = IniNames[n][1] => IniNames[j][1] = IniNames[i][1]

VARIABLES
  iniPc,      \* "quiet", "save", or "stuck" in parse_config
  iniMap,     \* m_config of the objects that live
  iniSaver,   \* the object in save_config
  iniTodo,    \* the lines it has still to write
  iniLines,   \* the lines of the file
  iniCut,     \* the last of them has no newline
  iniSaved,   \* the configuration the latest save or edit was of
  iniTorn     \* the latest save was cut off by the end of the process

iniFile == <<iniLines, iniCut>>
iniSaving == <<iniSaver, iniTodo>>
iniHistory == <<iniSaved, iniTorn>>
iniVars == <<iniPc, iniMap, iniSaving, iniFile, iniHistory>>

-----------------------------------------------------------------------------
\* parse_config of a pair.  A comment after the value: as many characters are kept of
\* what follows the '=', blanks and all, as the value has.
IniValueOf(line) ==
  IF line[5] THEN SubSeq(line[3], 1, Len(line[3]) - line[4]) ELSE line[3]

IniPut(map, k, v) == [n \in DOMAIN map \cup {k} |-> IF n = k THEN v ELSE map[n]]

\* One line: a section, a pair inside one that has a value, or something to ignore.
IniParseLine(acc, line) ==
  IF line[1] = "sect" THEN [acc EXCEPT !.sect = line[2]]
  ELSE IF line[1] = "pair" /\ acc.sect # "" /\ IniValueOf(line) # <<>>
  THEN [acc EXCEPT !.map = IniPut(acc.map, <<acc.sect, line[2]>>, IniValueOf(line))]
  ELSE acc

\* Fault: a last line without a newline is read as far as it goes.
IniWholeAndPart(lines, cut) ==
  LET part == Last(lines)
  IN  IF cut /\ part[1] = "pair" /\ Len(part[3]) > 1
        THEN Append(Front(lines), [part EXCEPT ![3] = SubSeq(@, 1, 1)])
        ELSE lines

\* The lines that getline gives before eof: one without a newline is not among them.
IniWhole(lines, cut) == IF cut THEN Front(lines) ELSE lines

\* What the lines of a file leave in the parser.
IniUnread == [sect |-> "", map |-> <<>>]
IniParsed(lines) ==
  LET at[n \in 0 .. Len(lines)] ==
        IF n = 0 THEN IniUnread ELSE IniParseLine(at[n - 1], lines[n])
  IN  at[Len(lines)]

IniParse(lines, cut) == IniParsed(IniWhole(lines, cut)).map

\* The keys that a file has are those of the map.
ASSUME IniEditAssumption ==
  \A lines \in IniEdits : \A cut \in {FALSE, lines # <<>>} :
    DOMAIN IniParse(lines, cut) \subseteq IniKeys

\* save_config: the pairs in the order of the map, a heading before the first of each
\* section, and a blank line before every heading but the first.
IniBlank == <<"other">>
IniHeading(sect) == <<"sect", sect>>
IniPair(k, v) == <<"pair", k[2], v, 0, FALSE>>

IniHeaded(saved, sect) ==
  IF sect \in saved.sects THEN saved.lines
  ELSE Append(IF saved.lines = <<>> THEN <<>> ELSE Append(saved.lines, IniBlank), IniHeading(sect))

IniSaveName(map, saved, k) ==
  IF k \notin DOMAIN map THEN saved
  ELSE [sects |-> saved.sects \cup {k[1]},
        lines |-> Append(IniHeaded(saved, k[1]), IniPair(k, map[k]))]

IniFormat(map) ==
  LET at[n \in 0 .. Len(IniNames)] ==
        IF n = 0 THEN [sects |-> {}, lines |-> <<>>]
        ELSE IniSaveName(map, at[n - 1], IniNames[n])
  IN  at[Len(IniNames)].lines

\* read: a key that is missing reads as the empty value.
IniRead(map, k) == IF k \in DOMAIN map THEN map[k] ELSE <<>>

\* load_config into object o: a line that is too long is never got past.
IniLoad(o) ==
  IF <<"long">> \in ToSet(iniLines)
  THEN iniPc' = "stuck" /\ UNCHANGED iniMap
  ELSE iniPc' = "quiet" /\ iniMap' = IniPut(iniMap, o, IniParse(iniLines, iniCut))

-----------------------------------------------------------------------------
IniInit ==
  /\ iniPc = "quiet" /\ iniMap = <<>>
  /\ iniSaver = "start" /\ iniTodo = <<>>
  /\ iniLines = <<>> /\ iniCut = FALSE
  /\ iniSaved = <<>> /\ iniTorn = FALSE

IniQuiet(o) == iniPc = "quiet" /\ o \in DOMAIN iniMap

\* While the spider is down the file is edited.
IniEdit ==
  /\ iniPc = "quiet" /\ DOMAIN iniMap = {}
  /\ iniLines' \in IniEdits /\ iniCut' \in {FALSE, iniLines' # <<>>}
  /\ iniSaved' = IniParse(iniLines', iniCut') /\ iniTorn' = FALSE
  /\ UNCHANGED <<iniPc, iniMap, iniSaving>>

\* The constructor; a client's object is made while start holds its own.
IniOpen(o) ==
  /\ iniPc = "quiet" /\ o \notin DOMAIN iniMap
  /\ o = "client" => "start" \in DOMAIN iniMap
  /\ IniLoad(o)
  /\ UNCHANGED <<iniSaving, iniFile, iniHistory>>

\* write, in all its types, erase and reload.
IniWrite(o, k, v) ==
  /\ IniQuiet(o)
  /\ iniMap' = [iniMap EXCEPT ![o] = IniPut(@, k, v)]
  /\ UNCHANGED <<iniPc, iniSaving, iniFile, iniHistory>>

IniErase(o, k) ==
  /\ IniQuiet(o) /\ k \in DOMAIN iniMap[o]
  /\ iniMap' = [iniMap EXCEPT ![o] = [n \in DOMAIN @ \ {k} |-> @[n]]]
  /\ UNCHANGED <<iniPc, iniSaving, iniFile, iniHistory>>

IniReload(o) ==
  /\ IniQuiet(o)
  /\ IniLoad(o)
  /\ UNCHANGED <<iniSaving, iniFile, iniHistory>>

\* flush: an empty configuration is not saved, any other truncates the file first.
IniFlush(o) ==
  /\ IniQuiet(o) /\ iniMap[o] # <<>>
  /\ iniPc' = "save"
  /\ iniSaver' = o /\ iniTodo' = IniFormat(iniMap[o])
  /\ iniLines' = <<>> /\ iniCut' = FALSE
  /\ iniSaved' = iniMap[o] /\ iniTorn' = FALSE
  /\ UNCHANGED iniMap

\* endl writes a line, or, when the disk takes no more, a part of it: then everything
\* after it is dropped.
IniWriteLine ==
  /\ iniPc = "save" /\ iniTodo # <<>>
  /\ iniLines' = Append(iniLines, Head(iniTodo))
  /\ \/ iniTodo' = Tail(iniTodo) /\ UNCHANGED <<iniCut, iniTorn>>
     \/ iniTodo' = <<>> /\ iniCut' = TRUE /\ iniTorn' = TRUE
  /\ UNCHANGED <<iniPc, iniMap, iniSaver, iniSaved>>

\* The file is closed, and flush loads it again.
IniSaveEnds ==
  /\ iniPc = "save" /\ iniTodo = <<>>
  /\ IniLoad(iniSaver)
  /\ UNCHANGED <<iniSaving, iniFile, iniHistory>>

\* The destructor has flushed: what it saved is what it still holds, or it holds nothing.
IniClose(o) ==
  /\ IniQuiet(o)
  /\ o = "start" => "client" \notin DOMAIN iniMap
  /\ \/ iniMap[o] = <<>>
     \/ iniSaver = o /\ iniMap[o] = IniParse(iniLines, iniCut)
  /\ iniMap' = [n \in DOMAIN iniMap \ {o} |-> iniMap[n]]
  /\ UNCHANGED <<iniPc, iniSaving, iniFile, iniHistory>>

\* The process ends, perhaps with a line half written.
IniCrash ==
  /\ iniPc = "save" \/ DOMAIN iniMap # {}
  /\ iniPc' = "quiet" /\ iniMap' = <<>>
  /\ iniTodo' = <<>>
  /\ iniTorn' = (iniTorn \/ iniTodo # <<>>)
  /\ IF iniTodo = <<>> THEN UNCHANGED iniFile
     ELSE \/ UNCHANGED iniFile
          \/ iniLines' = Append(iniLines, Head(iniTodo)) /\ iniCut' = TRUE
  /\ UNCHANGED <<iniSaver, iniSaved>>

IniNext ==
  \/ IniEdit
  \/ \E o \in IniObjects :
       IniOpen(o) \/ IniReload(o) \/ IniFlush(o) \/ IniClose(o)
  \/ \E o \in DOMAIN iniMap, k \in IniKeys :
       IniErase(o, k) \/ \E v \in IniValues : IniWrite(o, k, v)
  \/ IniWriteLine
  \/ IniSaveEnds
  \/ IniCrash

IniSpec == IniInit /\ [][IniNext]_iniVars

-----------------------------------------------------------------------------
IniTypeOK ==
  /\ iniPc \in {"quiet", "save", "stuck"}
  /\ DOMAIN iniMap \subseteq IniObjects
  /\ \A o \in DOMAIN iniMap : DOMAIN iniMap[o] \subseteq IniKeys
  /\ iniSaver \in IniObjects /\ iniCut \in BOOLEAN /\ iniTorn \in BOOLEAN
  /\ iniCut => iniLines # <<>>
  /\ DOMAIN iniSaved \subseteq IniKeys

\* Wherever a save is cut off, whatever is read from the file afterwards is a value as it
\* was saved or nothing, never a part of one or the value of another key or section; and
\* a save that was not cut off reads back as what was saved.
IniKept ==
  \A k \in IniKeys :
    LET now == IniRead(IniParse(iniLines, iniCut), k)
    IN  /\ now \in {<<>>, IniRead(iniSaved, k)}
        /\ iniPc = "quiet" /\ ~ iniTorn => now = IniRead(iniSaved, k)

=============================================================================
