----------------------------- MODULE GateFormat -----------------------------
(***************************************************************************)
(* The template renderer (internal/render/template.go) as pure operators:  *)
(* which credentials the gate should know, what a full or a delta file     *)
(* says about them, what the delta roster remembers, and, for the gate     *)
(* vendor's importer outside this repository, what reading a file does to  *)
(* the gate's own table.                                                   *)
(*                                                                         *)
(* A credential's unit, tenant and time zone are one value, its holder:    *)
(* the renderer compares the three together and never apart.  A template   *)
(* string is abstracted to whether it is blank, and a rendered line to the *)
(* template it came from and the row it interpolates.  Line order (SortBy) *)
(* is left out: no two lines of a file concern the same code.  Vacant      *)
(* units carry no code and are not modelled.                               *)
(***************************************************************************)
CONSTANTS
    Codes,      \* access codes
    Holders,    \* who a code belongs to: unit, tenant and time zone
    Nonces      \* values of the server's forceNonce

\* A roster that was never saved reads as forceNonce 0.
ASSUME NonceAssumption == 0 \in Nonces

-----------------------------------------------------------------------------
Statuses == {"active", "suspended"}

\* One credential: a row of the desired state, of the roster or of the gate.
Row == [code : Codes, holder : Holders, status : Statuses]

\* The server issues a code once: the codes of a table are distinct.
UniqueCodes(rows) == \A r, o \in rows : r.code = o.code => r = o

Templates ==
    {"line", "suspendedLine", "addedLine", "changedLine", "removedLine"}

\* What the provider and its format make of a state.  "full" and "delta" are
\* the two modes of the template provider, "test" is unitrise_test, "stub" is
\* a provider without a renderer or a template provider without a format.
\* has holds the templates that are not blank; changeSaysStatus tells whether
\* changedLine interpolates {status}.
Format == [mode : {"full", "delta", "test", "stub"},
           has : SUBSET Templates,
           changeSaysStatus : BOOLEAN]

\* The desired state GET /state answers with.
State == [creds : SUBSET Row, nonce : Nonces, format : Format]

Line == [tpl : Templates, row : Row]

NoFormat == [mode |-> "none", has |-> {}, changeSaysStatus |-> FALSE]

File == [format : Format \cup {NoFormat}, lines : SUBSET Line]

NoFile == [format |-> NoFormat, lines |-> {}]

Roster == [nonce : Nonces, rows : SUBSET Row]

EmptyRoster == [nonce |-> 0, rows |-> {}]

-----------------------------------------------------------------------------
(* Render                                                                  *)

CanSuspend(f) == "suspendedLine" \in f.has

\* What the gate should know: a format that cannot express suspension says it
\* by absence.
Effective(s) ==
    {r \in s.creds : r.status = "suspended" => CanSuspend(s.format)}

Knows(rows, r) == \E o \in rows : o.code = r.code

\* renderFull: one line per effective credential, unless its template is blank.
FullTemplate(r) == IF r.status = "suspended" THEN "suspendedLine" ELSE "line"

FullLines(s) ==
    {[tpl |-> FullTemplate(r), row |-> r] :
        r \in {e \in Effective(s) : FullTemplate(e) \in s.format.has}}

\* renderDelta's pick: the changed template wins over the suspended one.
Pick(f, r, changed) ==
    IF changed /\ "changedLine" \in f.has THEN "changedLine"
    ELSE IF r.status = "suspended" /\ CanSuspend(f) THEN "suspendedLine"
    ELSE IF "addedLine" \in f.has THEN "addedLine"
    ELSE "line"

\* A mistake Upserts avoids: a code the roster knows has no line, changed or
\* not.
UpsertsByCode(s, prior) ==
    {[tpl |-> Pick(s.format, r, FALSE), row |-> r] :
        r \in {e \in Effective(s) : ~Knows(prior, e)}}

\* renderDelta: the lines that lead from the prior rows to the effective ones.
\* A row the roster holds unchanged has no line; nor does a blank template.
Upserts(s, prior) ==
    {[tpl |-> Pick(s.format, r, Knows(prior, r)), row |-> r] :
        r \in Effective(s) \ prior}

Removals(s, prior) ==
    {[tpl |-> "removedLine", row |-> o] :
        o \in {p \in prior : ~Knows(Effective(s), p)}}

DeltaLines(s, prior) ==
    {l \in Upserts(s, prior) \cup Removals(s, prior) : l.tpl \in s.format.has}

\* The rows a delta is computed against: none after the local Force button or
\* when the server's nonce moved, or where loadRoster could not read any.
PriorRows(s, roster, fresh) ==
    IF fresh \/ roster.nonce # s.nonce THEN {} ELSE roster.rows

\* The bytes Render returns, by mode.  The unitrise_test file is prose no gate
\* imports.
Rendered(s, roster, fresh) ==
    [format |-> s.format,
     lines  |-> CASE s.format.mode = "full"  -> FullLines(s)
                  [] s.format.mode = "delta" ->
                        DeltaLines(s, PriorRows(s, roster, fresh))
                  [] OTHER -> {}]

\* A mistake Remembered avoids: a suspended code the format leaves out.
RemembersAll(s) == [nonce |-> s.nonce, rows |-> s.creds]

\* What a template render remembers, to be committed once the file landed.
Remembered(s) == [nonce |-> s.nonce, rows |-> Effective(s)]

-----------------------------------------------------------------------------
(* The gate software's importer (external)                                 *)

\* An edit that does not say the status leaves it as the gate has it.
Written(f, l, gate) ==
    IF l.tpl = "changedLine" /\ ~f.changeSaysStatus
      THEN {[l.row EXCEPT !.status = g.status] :
               g \in {g \in gate : g.code = l.row.code}}
      ELSE {l.row}

ImportDelta(f, lines, gate) ==
    {g \in gate : \A l \in lines : l.row.code # g.code}
        \cup UNION {Written(f, l, gate) :
                       l \in {l \in lines : l.tpl # "removedLine"}}

\* A full file is the gate's whole table: an absent code is locked out.
Import(file, gate) ==
    CASE file.format.mode = "full"  -> {l.row : l \in file.lines}
      [] file.format.mode = "delta" ->
            ImportDelta(file.format, file.lines, gate)
      [] OTHER -> gate

-----------------------------------------------------------------------------
(* Formats that can say what they need to                                  *)

\* A full format has a line for an active credential.
FullFormat(f) == f.mode = "full" /\ "line" \in f.has

\* A delta format can add and remove, and its change line, where it has both
\* one and a way to suspend, says the status.
DeltaFormat(f) ==
    /\ f.mode = "delta"
    /\ "removedLine" \in f.has
    /\ "addedLine" \in f.has \/ "line" \in f.has
    /\ CanSuspend(f) /\ "changedLine" \in f.has => f.changeSaysStatus
=============================================================================
