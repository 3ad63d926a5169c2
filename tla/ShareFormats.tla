----------------------------- MODULE ShareFormats -----------------------------
(***************************************************************************)
(* Exporter and Importer: a vault is written as txt, csv or json, the       *)
(* process may end while the file is written, and the text is imported into *)
(* another account, entry by entry inside one transaction, which an empty   *)
(* value or the end of the process cuts off.                               *)
(*                                                                         *)
(* A value is a sequence of tokens, as coarse as the formats can tell:      *)
(* "L" is " / login=", "P" is " / password=", "n" is a line ending, "v" any *)
(* other character that splitlines() breaks at, "c" a comma, "q" a double   *)
(* quote, and any other token text without a meaning.                       *)
(***************************************************************************)
EXTENDS Naturals, Sequences, FiniteSets, SequencesExt

CONSTANTS
  Tokens,    \* what a value is made of
  Vaults,    \* what the exporting account may hold: sequences of entries
  Existing,  \* what the importing account holds: service -> credentials
  None

Formats == {"txt", "json", "csv"}

Entries == [service : Seq(Tokens), login : Seq(Tokens), password : Seq(Tokens)]

Creds(e) == [login |-> e.login, password |-> e.password]

Empty(data, s) == <<>> \in {s, data[s].login, data[s].password}

\* save_passwords and save_password keep empty values out of every vault.
IsVault(entries) ==
  /\ entries \in Seq(Entries)
  /\ \A i \in 1 .. Len(entries) :
       <<>> \notin {entries[i].service, entries[i].login, entries[i].password}
  /\ \A i, j \in 1 .. Len(entries) : entries[i].service = entries[j].service => i = j

ASSUME VaultsAssumption == \A entries \in Vaults : IsVault(entries)
ASSUME ExistingAssumption == \A s \in DOMAIN Existing : ~Empty(Existing, s)
ASSUME NoneAssumption == None \notin [raised : BOOLEAN, skipped : Nat]

VARIABLES
  vault,   \* the entries of the exporting account
  text,    \* the document, whole or cut short, or None
  target,  \* the vault of the importing account: service -> credentials
  batch,   \* the transaction of save_passwords
  result   \* how the import ended, or None

vars == <<vault, text, target, batch, result>>

\* No transaction: it has nothing to prepare and nothing to write.
NoBatch == [open |-> FALSE, data |-> <<>>, skipped |-> 0, todo |-> {}, pending |-> {}]

\* Every vault is well formed, and so are the text, the transaction and the result.
TypeOK ==
  /\ vault \in Vaults
  /\ text # None => text.fmt \in Formats /\ text.whole \in BOOLEAN
  /\ \A s \in DOMAIN target : ~Empty(target, s)
  /\ batch.open \in BOOLEAN /\ batch.todo \cup batch.pending \subseteq DOMAIN batch.data
  /\ result # None => result.raised \in BOOLEAN /\ result.skipped \in Nat

Init ==
  /\ vault \in Vaults
  /\ text = None
  /\ target = Existing
  /\ batch = NoBatch
  /\ result = None

----------------------------------------------------------------------------
(* txt.  An operator named after another with an underscore is a slip a     *)
(* programmer could make in it; no definition of the model uses one.        *)

Has(value, tokens) == \E i \in 1 .. Len(value) : value[i] \in tokens

HasLineBreak_NewlineOnly(value) == Has(value, {"n"})

Breaks == {"n", "v"}

HasLineBreak(value) == Has(value, Breaks)

\* TXT_LINE; "S" is "service=".
TxtLine(e) ==
  <<"S">> \o e.service \o <<"L">> \o e.login \o <<"P">> \o e.password \o <<"n">>

TxtRefuses(entries) ==
  \E i \in 1 .. Len(entries) :
    \/ HasLineBreak(entries[i].service)
    \/ HasLineBreak(entries[i].login)
    \/ HasLineBreak(entries[i].password)

ToTxt(entries) == FlattenSeq([i \in 1 .. Len(entries) |-> TxtLine(entries[i])])

\* Where the lines that are not blank begin, and the line that begins at i.
LineStarts(doc) ==
  {i \in 1 .. Len(doc) : doc[i] \notin Breaks /\ (i > 1 => doc[i - 1] \in Breaks)}

LineFrom(doc, i) ==
  SubSeq(doc, i, CHOOSE j \in i .. Len(doc) :
                   /\ \A b \in i .. j : doc[b] \notin Breaks
                   /\ j < Len(doc) => doc[j + 1] \in Breaks)

\* Where "L" and "P" can separate a line into values that are not empty.
Splits(line) ==
  {at \in (3 .. Len(line)) \X (5 .. Len(line) - 1) :
     /\ line[1] = "S" /\ line[at[1]] = "L" /\ line[at[2]] = "P"
     /\ at[1] + 1 < at[2]}

SplitAt(line, at) ==
  [service  |-> SubSeq(line, 2, at[1] - 1),
   login    |-> SubSeq(line, at[1] + 1, at[2] - 1),
   password |-> SubSeq(line, at[2] + 1, Len(line))]

TxtMatch_Greedy(line) ==
  SplitAt(line, CHOOSE at \in Splits(line) :
    \A other \in Splits(line) :
      at[1] > other[1] \/ (at[1] = other[1] /\ at[2] >= other[2]))

\* TXT_PATTERN takes the shortest service, and then the shortest login.
TxtMatch(line) ==
  SplitAt(line, CHOOSE at \in Splits(line) :
    \A other \in Splits(line) :
      at[1] < other[1] \/ (at[1] = other[1] /\ at[2] <= other[2]))

\* result[service] = fields, for the entries in the order of their places: an
\* entry replaces an earlier one.
Collect(entries) ==
  [s \in {entries[i].service : i \in DOMAIN entries} |->
     Creds(entries[Max({i \in DOMAIN entries : entries[i].service = s})])]

ParseTxt(doc) ==
  LET matched == {i \in LineStarts(doc) : Splits(LineFrom(doc, i)) # {}}
  IN  [data |-> Collect([i \in matched |-> TxtMatch(LineFrom(doc, i))]),
       skipped |-> Cardinality(LineStarts(doc) \ matched)]

----------------------------------------------------------------------------
(* csv *)

\* csv.writer quotes a field that needs it, and doubles the quotes in it.
CsvField(value) ==
  LET Doubled == [i \in 1 .. Len(value) |->
                    IF value[i] = "q" THEN <<"q", "q">> ELSE <<value[i]>>]
  IN  IF Has(value, {"c", "q", "n"}) THEN <<"q">> \o FlattenSeq(Doubled) \o <<"q">>
                                     ELSE value

CsvRow(e) ==
  CsvField(e.service) \o <<"c">> \o CsvField(e.login) \o <<"c">>
    \o CsvField(e.password) \o <<"n">>

\* "H" is the header row.
ToCsv(entries) ==
  <<"H">> \o FlattenSeq([i \in 1 .. Len(entries) |-> CsvRow(entries[i])])

\* csv.reader: the rows so far, the row and the field being read, and where.
CsvStart == [rows |-> <<>>, row |-> <<>>, field |-> <<>>, at |-> "row"]

EndField(r) == [r EXCEPT !.row = Append(@, r.field), !.field = <<>>, !.at = "field"]
EndRow(r)   == [CsvStart EXCEPT !.rows = Append(r.rows, Append(r.row, r.field))]
Add(r, token, at) == [r EXCEPT !.field = Append(@, token), !.at = at]

CsvRead_LineByLine(r, token) ==
  CASE token = "n" -> IF r.at = "row" THEN r ELSE EndRow(r)
    [] token = "q" /\ r.at \in {"row", "field"} -> [r EXCEPT !.at = "quoted"]
    [] token = "q" /\ r.at = "quoted" -> [r EXCEPT !.at = "quote"]
    [] token = "q" /\ r.at = "quote" -> Add(r, token, "quoted")
    [] token = "c" /\ r.at # "quoted" -> EndField(r)
    [] OTHER -> Add(r, token, IF r.at = "quoted" THEN "quoted" ELSE "plain")

CsvRead(r, token) ==
  CASE token = "n" /\ r.at = "row" -> r
    [] token = "n" /\ r.at # "quoted" -> EndRow(r)
    [] token = "q" /\ r.at \in {"row", "field"} -> [r EXCEPT !.at = "quoted"]
    [] token = "q" /\ r.at = "quoted" -> [r EXCEPT !.at = "quote"]
    [] token = "q" /\ r.at = "quote" -> Add(r, token, "quoted")
    [] token = "c" /\ r.at # "quoted" -> EndField(r)
    [] OTHER -> Add(r, token, IF r.at = "quoted" THEN "quoted" ELSE "plain")

\* The reader after i tokens; the first of them is the header.
CsvReader(doc) ==
  LET read[i \in 0 .. Len(doc)] ==
        IF i <= 1 THEN CsvStart ELSE CsvRead(read[i - 1], doc[i])
  IN  read

\* The rows below the header; the end of the text ends a row that has begun.
CsvRows(doc) ==
  LET end == CsvReader(doc)[Len(doc)]
  IN  IF end.at = "row" THEN end.rows ELSE EndRow(end).rows

\* A row without a password is skipped.
ParseCsv(doc) ==
  LET rows == CsvRows(doc)
      full == {i \in 1 .. Len(rows) : Len(rows[i]) >= 3}
  IN  [data |-> Collect([i \in full |->
         [service |-> rows[i][1], login |-> rows[i][2], password |-> rows[i][3]]]),
       skipped |-> Cardinality((1 .. Len(rows)) \ full)]

----------------------------------------------------------------------------
(* Exporting and importing *)

\* The text of a format; the entries themselves stand for a json document.
Serialized(fmt) ==
  CASE fmt = "txt"  -> ToTxt(vault)
    [] fmt = "csv"  -> ToCsv(vault)
    [] fmt = "json" -> vault

\* A txt export that would not come back is refused with a ValueError: no step.
Serialize(fmt) ==
  /\ text = None
  /\ fmt = "txt" => ~TxtRefuses(vault)
  /\ text' = [fmt |-> fmt, doc |-> Serialized(fmt), whole |-> TRUE]
  /\ UNCHANGED <<vault, target, batch, result>>

\* export_to_file writes in place: a crash leaves the beginning of the text.
Cut(length) ==
  /\ text # None /\ text.whole /\ result = None /\ ~batch.open
  /\ text' = [text EXCEPT !.doc = SubSeq(@, 1, length), !.whole = FALSE]
  /\ UNCHANGED <<vault, target, batch, result>>

Parse(t) ==
  CASE t.fmt = "txt"  -> ParseTxt(t.doc)
    [] t.fmt = "csv"  -> ParseCsv(t.doc)
    [] t.fmt = "json" -> [data |-> Collect(t.doc), skipped |-> 0]

\* No json document remains valid when its end is missing.
ParseRaises(t) == t.fmt = "json" /\ ~t.whole

\* The entries of data replace those of the vault, service by service.
Upserted(data, old) ==
  [s \in DOMAIN data \cup DOMAIN old |-> IF s \in DOMAIN data THEN data[s] ELSE old[s]]

\* The text is parsed as a whole; then save_passwords opens its transaction.
\* Without entries there is none: one that prepares nothing stands for that.
Import ==
  /\ text # None /\ result = None /\ ~batch.open
  /\ IF ParseRaises(text)
     THEN result' = [raised |-> TRUE, skipped |-> 0] /\ UNCHANGED batch
     ELSE /\ LET parsed == Parse(text)
             IN  batch' = [open |-> TRUE, data |-> parsed.data, skipped |-> parsed.skipped,
                           todo |-> DOMAIN parsed.data, pending |-> {}]
          /\ UNCHANGED result
  /\ UNCHANGED <<vault, text, target>>

\* _is_unchanged: the account holds the entry as it is.
IsUnchanged(s) == s \in DOMAIN target /\ target[s] = batch.data[s]

PrepareEntry_Unchecked(s) ==
  /\ batch.open /\ s \in batch.todo
  /\ batch' = [batch EXCEPT !.todo = @ \ {s},
                            !.pending = IF IsUnchanged(s) THEN @ ELSE @ \cup {s}]
  /\ UNCHANGED <<vault, text, target, result>>

PrepareEntry_CommitsEach(s) ==
  /\ batch.open /\ s \in batch.todo
  /\ IsUnchanged(s) \/ ~Empty(batch.data, s)
  /\ target' = Upserted([x \in {s} |-> batch.data[x]], target)
  /\ batch' = [batch EXCEPT !.todo = @ \ {s}]
  /\ UNCHANGED <<vault, text, result>>

\* An entry that is unchanged is left alone, another one is added to what the
\* session will write; the order of the entries in data is not modelled.
PrepareEntry(s) ==
  /\ batch.open /\ s \in batch.todo
  /\ IsUnchanged(s) \/ ~Empty(batch.data, s)
  /\ batch' = [batch EXCEPT !.todo = @ \ {s},
                            !.pending = IF IsUnchanged(s) THEN @ ELSE @ \cup {s}]
  /\ UNCHANGED <<vault, text, target, result>>

\* _prepare_data refuses an empty value, whatever was prepared before: session()
\* rolls back and raises.
RefuseEntry(s) ==
  /\ batch.open /\ s \in batch.todo
  /\ ~IsUnchanged(s) /\ Empty(batch.data, s)
  /\ batch' = NoBatch
  /\ result' = [raised |-> TRUE, skipped |-> 0]
  /\ UNCHANGED <<vault, text, target>>

\* The end of the session writes all that was prepared.
CommitBatch ==
  /\ batch.open /\ batch.todo = {}
  /\ target' = Upserted([s \in batch.pending |-> batch.data[s]], target)
  /\ batch' = NoBatch
  /\ result' = [raised |-> FALSE, skipped |-> batch.skipped]
  /\ UNCHANGED <<vault, text>>

\* The process ends before the commit; the text can be imported again.
Crash ==
  /\ batch.open
  /\ batch' = NoBatch
  /\ UNCHANGED <<vault, text, target, result>>

Next ==
  \/ \E fmt \in Formats : Serialize(fmt)
  \/ \E length \in 0 .. (IF text = None THEN 0 ELSE Len(text.doc) - 1) : Cut(length)
  \/ Import
  \/ \E s \in batch.todo : PrepareEntry(s) \/ RefuseEntry(s)
  \/ CommitBatch
  \/ Crash

Spec == Init /\ [][Next]_vars

----------------------------------------------------------------------------
(* Properties *)

Imported == result # None /\ ~result.raised

\* What a txt line can hold: no " / login=" inside the service and no
\* " / password=" inside the login, except at their beginning.
Unambiguous(e) == ~Has(Tail(e.service), {"L"}) /\ ~Has(Tail(e.login), {"P"})

Holds(data, e) == e.service \in DOMAIN data /\ data[e.service] = Creds(e)

ReadsBack == \A i \in 1 .. Len(vault) : Holds(target, vault[i])

\* A whole export is read back unchanged, except that txt loses the entries
\* that are ambiguous, each of them, unless the account held them before
\* (serialize, import_text, TXT_PATTERN).
ReadsBackUnlessAmbiguous ==
  Imported /\ text.whole =>
    LET lost == {i \in 1 .. Len(vault) : text.fmt = "txt" /\ ~Unambiguous(vault[i])}
    IN  /\ lost = {} => ReadsBack
        /\ \A i \in lost : Holds(target, vault[i]) => Holds(Existing, vault[i])

\* Nothing of a whole export is refused or skipped: txt refuses every value
\* that its own lines would break at (_has_line_break, _parse_txt).
NothingSkipped ==
  result # None /\ text.whole => ~result.raised /\ result.skipped = 0

\* An export that was cut short brings its first entries exactly, at most the
\* password of the next one cut short, and touches nothing else; for txt this is
\* said only of vaults without ambiguous entries (export_to_file, _parse_txt,
\* _parse_csv).
CutHarmsOneEntry ==
  /\ Imported /\ ~text.whole
  /\ text.fmt = "txt" => \A i \in 1 .. Len(vault) : Unambiguous(vault[i])
  => \E k \in 0 .. Len(vault) :
       LET first == SubSeq(vault, 1, k)
       IN  \/ target = Upserted(Collect(first), Existing)
           \/ /\ k < Len(vault)
              /\ \E n \in 1 .. Len(vault[k + 1].password) :
                   LET cut == [vault[k + 1] EXCEPT !.password = SubSeq(@, 1, n)]
                   IN  target = Upserted(Collect(Append(first, cut)), Existing)

\* The account holds all of the imported entries or none: nothing while the
\* entries are prepared, after a refusal behind entries that were good, and after
\* a crash; each of them after the commit, though those that were equal are never
\* written (save_passwords: "in a single transaction").
ImportAllOrNothing ==
  target = IF Imported THEN Upserted(Parse(text).data, Existing) ELSE Existing
=============================================================================
