----------------------------- MODULE HalConverter -----------------------------
(***************************************************************************)
(* tools/hal_converter/types_to_header.py: convert() opens the output for  *)
(* writing, then the footer, header and input for reading, in one 'with';  *)
(* a missing file (or output directory) raises FileNotFoundError, which    *)
(* ends the script with exit(2).  Otherwise it writes a banner and the     *)
(* header, every input line with the PATTERNS replaced one after the other *)
(* by str.replace, and the footer, reading each file just before its part. *)
(* A file that does not decode makes that readlines() raise                *)
(* UnicodeDecodeError, which the except clause does not catch: the 'with'  *)
(* closes the output holding what was written so far, and Python exits 1.  *)
(*                                                                         *)
(* A line of text is a sequence of tokens.  Each pattern's text is made of *)
(* whole tokens ("handle fd" is "handle" followed by " fd"), so            *)
(* str.replace on the text is Replace on the tokens: it finds a pattern    *)
(* inside a longer word ("xstring") just as str.replace does.              *)
(***************************************************************************)
EXTENDS Sequences, SequencesExt

CONSTANTS
    Lines,      \* lines the input file may hold
    HeaderText, \* the lines of types_hal_header.txt
    FooterText  \* the lines of types_hal_footer.txt

VARIABLES
    input, header, footer,  \* the three files read: [exists, decodes, lines]
    outDir,                 \* the output's directory exists
    out,                    \* the output file, types.hal.h: [exists, lines]
    pc,                     \* "open", "header", "input", "footer", "closed"
    exitCode                \* the process exit status, -1 while it runs

halVars == <<input, header, footer, outDir, out, pc, exitCode>>

-----------------------------------------------------------------------------
PKG == "package vendor.samsung_slsi.hardware.enn@1.0;"

\* PATTERNS: <<text, replacement>>, applied in this order.
PATTERNS ==
    << <<<<PKG>>, <<>>>>,
       <<<<"handle", " fd">>, <<"handle_x86", " data;\n    ", "handle_x86", " *fd = &data">>>>,
       <<<<"handle", " hd">>, <<"handle_x86", " data;\n    ", "handle_x86", " *hd = &data">>>>,
       <<<<"string">>, <<"std::", "string">>>>,
       <<<<"vec<">>, <<"std::", "vector<">>>> >>

File(ls) == [exists |-> TRUE, lines |-> ls]
Absent == [exists |-> FALSE, lines |-> <<>>]
\* A file read in text mode: readlines() raises when it does not decode.
Readable(ls, ok) == [exists |-> TRUE, decodes |-> ok, lines |-> ls]
Missing == [exists |-> FALSE, decodes |-> TRUE, lines |-> <<>>]

\* The banner line naming the input, and the "\r\n\r\n" written after it
\* and before the footer.
Banner == <<"//// This file is generates from ", "types.hal">>
CRLF2 == <<"\r\n\r\n">>

\* str.replace(old, new): every occurrence, leftmost first, without looking
\* again at what it put in.  (SequencesExt's ReplaceAllSubSeqs means the
\* same, but enumerates every split of the line.)
RECURSIVE Replace(_, _, _)
Replace(l, old, new) ==
    IF Len(l) < Len(old) THEN l
    ELSE IF SubSeq(l, 1, Len(old)) = old
    THEN new \o Replace(SubSeq(l, Len(old) + 1, Len(l)), old, new)
    ELSE <<Head(l)>> \o Replace(Tail(l), old, new)

\* Mutant: str.replace(old, new, 1), only the first occurrence.
ConvertLineFirstOnly(l) ==
    FoldLeft(LAMBDA acc, p : ReplaceFirstSubSeq(p[2], p[1], acc), l, PATTERNS)

\* 'for pattern_element in pattern: input_line = input_line.replace(..)'
ConvertLine(l) ==
    FoldLeft(LAMBDA acc, p : Replace(acc, p[1], p[2]), l, PATTERNS)

\* What the 'with' block writes when every file opened.
Converted(in, hd, ft) ==
    <<Banner, CRLF2>> \o hd \o [k \in 1..Len(in) |-> ConvertLine(in[k])]
    \o <<CRLF2>> \o ft

\* A types.hal begins with its package line; any line may follow.
InputFiles == {<<>>} \cup {<<l>> : l \in Lines} \cup {<<<<PKG>>, l>> : l \in Lines}

\* main(): the files as the user's tree holds them, and an earlier
\* types.hal.h or none.
Init ==
    /\ input \in {Missing} \cup {Readable(ls, ok) : ls \in InputFiles, ok \in BOOLEAN}
    /\ header \in {Missing} \cup {Readable(HeaderText, ok) : ok \in BOOLEAN}
    /\ footer \in {Missing} \cup {Readable(FooterText, ok) : ok \in BOOLEAN}
    /\ outDir \in BOOLEAN
    /\ out \in IF outDir THEN {Absent, File(<<<<"// an earlier types.hal.h">>>>)}
                         ELSE {Absent}
    /\ pc = "open"
    /\ exitCode = -1

\* Mutant: 'except Exception as e: print(e)' without the exit call.
ExitOnErrorPrintOnly(e) == 0

\* The exit status an exception from the 'with' block ends the script
\* with: exit(2) from the FileNotFoundError clause, 1 for a traceback.
ExitOnError(e) == IF e = "FileNotFoundError" THEN 2 ELSE 1

\* The script ends by exception e; the 'with' closes what it opened.
Raise(e) ==
    /\ pc' = "closed"
    /\ exitCode' = ExitOnError(e)

\* Line 21: open(out_f, 'w') creates or truncates the output, then the
\* footer, header and input are opened for reading.
Open ==
    /\ pc = "open"
    /\ IF ~outDir
       THEN Raise("FileNotFoundError") /\ UNCHANGED out
       ELSE /\ out' = File(<<>>)
            /\ IF footer.exists /\ header.exists /\ input.exists
               THEN pc' = "header" /\ UNCHANGED exitCode
               ELSE Raise("FileNotFoundError")
    /\ UNCHANGED <<input, header, footer, outDir>>

\* Lines 24-28: read the header, write the banner, "\r\n\r\n" and the header.
WriteHeader ==
    /\ pc = "header"
    /\ IF header.decodes
       THEN /\ out' = File(<<Banner, CRLF2>> \o header.lines)
            /\ pc' = "input"
            /\ UNCHANGED exitCode
       ELSE Raise("UnicodeDecodeError") /\ UNCHANGED out
    /\ UNCHANGED <<input, header, footer, outDir>>

\* Lines 32-36: read the input, write each line converted.
ConvertInput ==
    /\ pc = "input"
    /\ IF input.decodes
       THEN /\ out' = File(out.lines \o [k \in 1..Len(input.lines) |->
                                             ConvertLine(input.lines[k])])
            /\ pc' = "footer"
            /\ UNCHANGED exitCode
       ELSE Raise("UnicodeDecodeError") /\ UNCHANGED out
    /\ UNCHANGED <<input, header, footer, outDir>>

WriteFooter ==
    /\ pc = "footer"
    /\ IF footer.decodes
       THEN /\ out' = File(out.lines \o <<CRLF2>> \o footer.lines)
            /\ pc' = "closed"
            /\ exitCode' = 0
       ELSE Raise("UnicodeDecodeError") /\ UNCHANGED out
    /\ UNCHANGED <<input, header, footer, outDir>>

Next == Open \/ WriteHeader \/ ConvertInput \/ WriteFooter

Spec == Init /\ [][Next]_halVars

-----------------------------------------------------------------------------
(* Properties.                                                             *)

TypeOK ==
    /\ pc \in {"open", "header", "input", "footer", "closed"}
    /\ exitCode \in IF pc = "closed" THEN {0, 1, 2} ELSE {-1}
    /\ out.exists \in BOOLEAN /\ out.lines \in Seq(Seq(STRING))

\* The reference conversion: one left-to-right pass over the line that, at
\* each position, replaces the first pattern of the table that starts
\* there, and copies any other token.
RECURSIVE Subst(_)
Subst(l) ==
    IF l = <<>> THEN <<>>
    ELSE LET hits == {k \in 1..Len(PATTERNS) : IsPrefix(PATTERNS[k][1], l)}
         IN IF hits = {}
            THEN <<Head(l)>> \o Subst(Tail(l))
            ELSE LET p == PATTERNS[Min(hits)]
                 IN p[2] \o Subst(SubSeq(l, Len(p[1]) + 1, Len(l)))

\* A finished run writes types.hal.h as banner, header, the input with
\* every occurrence of every pattern replaced, and footer.  Applying the
\* patterns one after the other is the same as the single pass: no
\* replacement text contains a pattern listed after it, and every
\* occurrence on a line is replaced, not only the first.
OutputIsReference ==
    pc = "closed" /\ exitCode = 0 =>
      out.lines = <<Banner, CRLF2>> \o header.lines
                  \o [k \in 1..Len(input.lines) |-> Subst(input.lines[k])]
                  \o <<CRLF2>> \o footer.lines

\* The exit status tells the caller whether types.hal.h can be used: once
\* the script has ended, it is 0 exactly when the output holds the whole
\* conversion.  Each way convert() can stop early (no output directory, a
\* missing file after the output was truncated, a header, input or footer
\* that does not decode after part of the output was written) leaves a
\* nonzero status.
ExitStatusTellsOutcome ==
    pc = "closed" =>
      (exitCode = 0 <=> out = File(Converted(input.lines, header.lines,
                                             footer.lines)))

=============================================================================
