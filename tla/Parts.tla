------------------------------- MODULE Parts -------------------------------
(***************************************************************************)
(* The components that run in their caller's thread and share nothing: the *)
(* linked list, the scanners of SQL templates and of URL patterns, the SQL *)
(* builder, and result sets.  One of them is driven, and the initial state *)
(* says which.                                                             *)
(***************************************************************************)
EXTENDS LinkList

CONSTANTS
    Chars, MaxTemplate,                             \* SqlPattern
    UrlChars, Apis, Requests,                       \* UrlPattern
    Templates, Calls, Trees, Long,                  \* SqlBuilder
    Members, Names, Cells, Answers, MaxSets,        \* ResultSet
    Default, Null

VARIABLES
    part,
    pattern, scanned, scan, token, piece, pieces, err,                    \* SqlPattern
    job, path, read, state, start_flag, idx, section, found, vals,      \* UrlPattern
    template, args, done, sql, built,                                   \* SqlBuilder
    stored, cursor, user, models, asked, ret, wrong                     \* ResultSet

scanVars == <<pattern, scanned, scan, token, piece, pieces, err>>
urlVars == <<job, path, read, state, start_flag, idx, section, found, vals>>
builderVars == <<template, args, done, sql, built>>
setVars == <<stored, cursor, user, models, asked, ret, wrong>>

Scanner == INSTANCE SqlPattern WITH
    Plain <- Chars, MaxLen <- MaxTemplate, read <- scanned, state <- scan, section <- piece

Url == INSTANCE UrlPattern WITH vars <- found, Plain <- UrlChars

Builder == INSTANCE SqlBuilder WITH ret <- built

Sets == INSTANCE ResultSet

\* No character is a token and plain, templates and arguments are what their
\* types say, and the rows of a set fit its columns.
ASSUME PartsAssumption ==
    /\ Scanner!PlainIsNoToken /\ Url!PathsAreText
    /\ Builder!TemplatesAreCut /\ Builder!TreesAreWhole
    /\ Sets!RowsFit

-----------------------------------------------------------------------------
PartsInit ==
    /\ part \in {"list", "scanner", "url", "builder", "sets"}
    /\ Init /\ Url!Idle /\ Builder!Idle /\ Sets!Idle
    /\ Scanner!Init /\ (part # "scanner" => pattern = <<>>)

PartsNext ==
    /\ UNCHANGED part
    /\ \/ part = "list"    /\ Next         /\ UNCHANGED <<scanVars, urlVars, builderVars, setVars>>
       \/ part = "scanner" /\ Scanner!Next /\ UNCHANGED <<vars, urlVars, builderVars, setVars>>
       \/ part = "url"     /\ Url!Next     /\ UNCHANGED <<vars, scanVars, builderVars, setVars>>
       \/ part = "builder" /\ Builder!Next /\ UNCHANGED <<vars, scanVars, urlVars, setVars>>
       \/ part = "sets"    /\ Sets!Next    /\ UNCHANGED <<vars, scanVars, urlVars, builderVars>>

allVars == <<part, vars, scanVars, urlVars, builderVars, setVars>>

PartsSpec == PartsInit /\ [][PartsNext]_allVars

-----------------------------------------------------------------------------
\* The properties of the parts, stated where they are defined: besides those of
\* LinkList, of SqlPattern::explode (var_pattern.cpp:59-164), the pieces it cuts,
PiecesSpellPattern == Scanner!PiecesSpellPattern
\* the templates it accepts
AcceptsTemplates == Scanner!AcceptsTemplates
\* and where it reports an error,
EarliestError == Scanner!EarliestError
\* of UrlPattern (var_pattern.cpp:166-361), which variables it finds
VariablesAreSections == Url!VariablesAreSections
\* and what they stand for in a request,
ValuesAreSections == Url!ValuesAreSections
\* of SqlBuilder::prepare_statement, where it puts values
ValuesInPlace == Builder!ValuesInPlace
\* and how it fails,
FieldsFailSafely == Builder!FieldsFailSafely
\* of MyResult, that its sets are freed,
SetsFreedOnce == Sets!SetsFreedOnce
\* of selects, what they read
ModelsAreRows == Sets!ModelsAreRows
\* and that what they return is as documented (docs/reference.md:531).
ReturnAsDocumented == Sets!ReturnAsDocumented
=============================================================================
