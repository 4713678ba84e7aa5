----------------------------- MODULE Catalogue ------------------------------
(***************************************************************************)
(* The achievement catalogue as administrators manage it: two admin        *)
(* screens, each with its copy of the catalogue and an edit form that      *)
(* keeps the values it opened with, and the service that reads a row,      *)
(* then writes row and audit record in one transaction.  Name, description *)
(* and badge are one field here: they are edited alike.                    *)
(***************************************************************************)
EXTENDS Naturals, Sequences

CONSTANTS
    Admins,
    Codes,          \* the codes the server has a rule for
    Names,          \* what a name can be
    Seeded,         \* codes that have a row when the history begins
    MaxAudit        \* bound: audit records

ASSUME CatalogueAssumption ==
    /\ Seeded \subseteq Codes /\ MaxAudit \in Nat /\ Names # {}
    /\ "name" \notin Codes /\ "none" \notin Codes \cup Names

VARIABLES
    rows,       \* [Codes -> the row of achievements, or NoRow]
    auditLog,   \* the audit records of the catalogue, in the order committed
    screen,     \* [Admins -> the catalogue as last fetched, and its open form]
    request     \* [Admins -> the request under way]

catalogueVars == <<rows, auditLog, screen, request>>

Row(name, enabled) == [name |-> name, enabled |-> enabled]
NoRow == Row("none", FALSE)
Standing == CHOOSE n \in Names : TRUE       \* the name ACHIEVEMENT_CATALOGUE gives
NoRequest == [op |-> "none", code |-> "none", values |-> NoRow, before |-> NoRow, read |-> FALSE]
Closed == "none"

\* editing: the code whose form is open.  form: its fields.  touched: the
\* fields the administrator changed since it opened (history).  opened: the
\* row it opened with (history).
CatalogueInit ==
    /\ rows = [c \in Codes |-> IF c \in Seeded THEN Row(Standing, TRUE) ELSE NoRow]
    /\ auditLog = <<>>
    /\ screen = [a \in Admins |-> [list |-> rows, editing |-> Closed, form |-> NoRow, touched |-> {}, opened |-> NoRow]]
    /\ request = [a \in Admins |-> NoRequest]

-----------------------------------------------------------------------------
(* AdminAchievementsScreen *)

\* The query is fetched again: after a save, or because the window is focused.
\* A form that is open keeps its fields.
Fetch(a) ==
    /\ screen[a].list # rows
    /\ screen' = [screen EXCEPT ![a].list = rows]
    /\ UNCHANGED <<rows, auditLog, request>>

\* A form is keyed by its achievement and starts from the list.
FieldsFor(s, c) == s.list[c]

OpenForm(a, c) ==
    /\ request[a] = NoRequest /\ screen[a].list[c] # NoRow /\ screen[a].editing # c
    /\ screen' = [screen EXCEPT ![a].editing = c, ![a].form = FieldsFor(screen[a], c),
                                ![a].touched = {}, ![a].opened = screen[a].list[c]]
    /\ UNCHANGED <<rows, auditLog, request>>

\* Bound: a field of an open form is changed at most once.
Touch(a) ==
    /\ request[a] = NoRequest /\ screen[a].editing # Closed
    /\ \/ "name" \notin screen[a].touched /\ \E n \in Names \ {screen[a].form.name} :
             screen' = [screen EXCEPT ![a].form.name = n, ![a].touched = @ \cup {"name"}]
       \/ "enabled" \notin screen[a].touched /\
             screen' = [screen EXCEPT ![a].form.enabled = ~@, ![a].touched = @ \cup {"enabled"}]
    /\ UNCHANGED <<rows, auditLog, request>>

\* Save sends every field of the form.
Save(a) ==
    /\ request[a] = NoRequest /\ screen[a].editing # Closed
    /\ request' = [request EXCEPT ![a] = [NoRequest EXCEPT !.op = "update", !.code = screen[a].editing, !.values = screen[a].form]]
    /\ UNCHANGED <<rows, auditLog, screen>>

\* Offer it: a code its list misses, or the one it offered before, which the
\* form goes on holding.
Offer(a, c) ==
    /\ request[a] = NoRequest /\ screen[a].editing = Closed
    /\ screen[a].list[c] = NoRow \/ c \notin Seeded
    /\ request' = [request EXCEPT ![a] = [NoRequest EXCEPT !.op = "create", !.code = c, !.values = Row(Standing, TRUE)]]
    /\ UNCHANGED <<rows, auditLog, screen>>

-----------------------------------------------------------------------------
(* AdminService *)

\* findAchievementByCode and listAchievementsForAdmin, before the transaction.
Read(a) ==
    LET r == request[a]
        refused == (r.op = "create") = (rows[r.code] # NoRow)
    IN  /\ r.op # "none" /\ ~r.read
        /\ request' = [request EXCEPT ![a] = IF refused THEN NoRequest ELSE [r EXCEPT !.before = rows[r.code], !.read = TRUE]]
        /\ UNCHANGED <<rows, auditLog, screen>>

AuditRecord(a, op) == [code |-> request[a].code, op |-> op, before |-> request[a].before, after |-> request[a].values]

\* Mutant: achievements_code_key is missing.
MayInsertAgain(c) == TRUE

MayInsert(c) == rows[c] = NoRow

Audited(a, op) == Append(auditLog, AuditRecord(a, op))

\* Insert and audit record in one transaction; the unique index refuses the
\* second of two racing inserts, whose request answers an error.
CreateAchievement(a) ==
    /\ request[a].op = "create" /\ request[a].read /\ Len(auditLog) < MaxAudit
    /\ IF MayInsert(request[a].code)
       THEN /\ rows' = [rows EXCEPT ![request[a].code] = request[a].values]
            /\ auditLog' = Audited(a, "created")
       ELSE UNCHANGED <<rows, auditLog>>
    /\ request' = [request EXCEPT ![a] = NoRequest]
    /\ UNCHANGED screen

\* The update holds the row until its audit record commits with it.  The
\* answer closes the form.
UpdateAchievement(a) ==
    /\ request[a].op = "update" /\ request[a].read /\ Len(auditLog) < MaxAudit
    /\ rows' = [rows EXCEPT ![request[a].code] = request[a].values]
    /\ auditLog' = Audited(a, "updated")
    /\ request' = [request EXCEPT ![a] = NoRequest]
    /\ screen' = [screen EXCEPT ![a].editing = Closed, ![a].form = NoRow, ![a].touched = {}, ![a].opened = NoRow]

CatalogueNext ==
    \E a \in Admins :
        \/ Fetch(a) \/ Touch(a) \/ Save(a) \/ Read(a) \/ CreateAchievement(a) \/ UpdateAchievement(a)
        \/ \E c \in Codes : OpenForm(a, c) \/ Offer(a, c)

-----------------------------------------------------------------------------
(* Properties *)

\* The audit tells what the catalogue is: the last record of a code ends
\* with its row, however the requests of two administrators overlap.
AuditEndsAtRow ==
    \A i \in 1..Len(auditLog) :
        LET r == auditLog[i]
        IN  (\A j \in 1..Len(auditLog) : j > i => auditLog[j].code # r.code) => r.after = rows[r.code]

\* A code is offered once: nobody's row is replaced by a second creation.
OfferedOnce ==
    \A i, j \in 1..Len(auditLog) :
        auditLog[i].op = "created" /\ auditLog[j].op = "created" /\ auditLog[i].code = auditLog[j].code => i = j

\* Each achievement is created once, and the last record of it is its row, however the
\* requests of two administrators overlap (admin/service.ts).
CatalogueIsAudited == AuditEndsAtRow /\ OfferedOnce
=============================================================================
