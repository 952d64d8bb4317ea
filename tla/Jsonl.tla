-------------------------------- MODULE Jsonl --------------------------------
(***************************************************************************)
(* The append-only JSONL files of the runner: results.jsonl and            *)
(* usage.jsonl.  append_row and append_usage_row are the same code: open   *)
(* with O_APPEND, one os.write of the row and its newline, fsync, close.   *)
(* The count os.write returns is not looked at, so a writer killed in the  *)
(* call, or a disk that fills up in it, leaves a line without its end, and *)
(* the next append continues that line.                                    *)
(***************************************************************************)
EXTENDS Integers, Sequences

(* A file is its lines and whether the last one lacks its newline.  Two     *)
(* counts are history: the rows appended, and the appends that were cut.    *)
Empty == [lines |-> <<>>, open |-> FALSE, appended |-> 0, torn |-> 0]

Files(Line) == [lines : Seq(Line), open : BOOLEAN, appended : Nat, torn : Nat]

(* A line no reader can parse.                                              *)
Garbled == [id |-> "garbled", row |-> 0, why |-> {}]

(* How much of a row reaches the file: all of it, a prefix of the JSON, or  *)
(* all but the newline.                                                     *)
Cuts == {"whole", "prefix", "no_newline"}

(* Mutant: the file is opened for writing and not for appending.            *)
WrittenTruncating(file, row, cut) ==
  [lines    |-> <<IF cut = "prefix" THEN Garbled ELSE row>>,
   open     |-> cut # "whole",
   appended |-> file.appended + 1,
   torn     |-> IF cut = "whole" THEN file.torn ELSE file.torn + 1]

(* Two rows on one line are "Extra data" to the parser: both are lost.      *)
Written(file, row, cut) ==
  [lines    |-> IF file.open
                  THEN [file.lines EXCEPT ![Len(file.lines)] = Garbled]
                  ELSE Append(file.lines, IF cut = "prefix" THEN Garbled ELSE row),
   open     |-> cut # "whole",
   appended |-> file.appended + 1,
   torn     |-> IF cut = "whole" THEN file.torn ELSE file.torn + 1]

(* Mutant: a reader that gives up at the first line it cannot parse.        *)
ParsedUpToGarbled(file) ==
  {file.lines[i] : i \in {j \in DOMAIN file.lines :
                            \A k \in 1..j : file.lines[k] # Garbled}}

(* Every reader skips the lines it cannot parse and goes on.                *)
Parsed(file) ==
  {file.lines[i] : i \in {j \in DOMAIN file.lines : file.lines[j] # Garbled}}
=============================================================================
