----------------------------- MODULE UrlPattern -----------------------------
(***************************************************************************)
(* UrlPattern (src/var_pattern.cpp): explode_path_vars reads a path with   *)
(* {variables} and says at which section each stands; fetch_path_vars then *)
(* reads a request's path and gives each variable the text of its section. *)
(* One loop iteration a step.  Runs of slashes count as one.  The          *)
(* characters are the slash, the braces and the members of Plain.          *)
(***************************************************************************)
EXTENDS Naturals, Sequences, SequencesExt

CONSTANTS
    Plain,      \* characters that are no token
    Apis,       \* the paths an application declares
    Requests    \* the paths of requests: no braces

VARIABLES
    job,        \* "none", "explode", "fetch" or the result of the last one
    path,       \* the path being read
    read,       \* how many characters of it have been taken
    state,      \* of the scanner: "INIT", "MATCH_TOKEN", "NORMAL", "FETCH", "END_FETCH"
    start_flag, \* something has been read
    idx,        \* the section being read, from 0
    section,    \* the characters of a name, or of a value
    vars,       \* the variables: section -> name
    vals        \* their values: name -> text

urlVars == <<job, path, read, state, start_flag, idx, section, vars, vals>>

Empty == <<>>
Slash == "/"
LeftBrace == "{"
RightBrace == "}"
Braces == {LeftBrace, RightBrace}

\* No character is a token and plain, and a path has no others.
PathsAreText ==
    /\ Plain \cap ({Slash} \cup Braces) = {}
    /\ Apis \cup Requests \subseteq Seq(Plain \cup {Slash} \cup Braces)

Scan(what, p) ==
    /\ job' = what
    /\ path' = p
    /\ read' = 0 /\ state' = "INIT" /\ start_flag' = FALSE /\ idx' = 0 /\ section' = <<>>

\* In this state of this scanner the next character is one of cs.
At(what, s, cs) ==
    /\ job = what
    /\ state \in s
    /\ read < Len(path)
    /\ path[read + 1] \in cs

c == path[read + 1]

\* std::map::emplace leaves a key that is there as it is.
Emplaced(f, k, v) == [x \in DOMAIN f \cup {k} |-> IF x \in DOMAIN f THEN f[x] ELSE v]

Advance == read' = read + 1

-----------------------------------------------------------------------------
(* explode_path_vars *)

explode_path_vars(p) ==
    /\ job = "none"
    /\ Scan("explode", p)
    /\ UNCHANGED <<vars, vals>>

\* A first section without a slash before it is not looked at.
FirstSection ==
    /\ At("explode", {"INIT"}, Plain)
    /\ Advance
    /\ start_flag' = TRUE
    /\ UNCHANGED <<job, path, state, idx, section, vars, vals>>

\* Mutant: every slash opens a section, the leading one too.
NewSectionAlways ==
    /\ At("explode", {"INIT"}, {Slash})
    /\ Advance
    /\ state' = "MATCH_TOKEN"
    /\ idx' = idx + 1
    /\ start_flag' = TRUE
    /\ UNCHANGED <<job, path, section, vars, vals>>

NewSection ==
    /\ At("explode", {"INIT"}, {Slash})
    /\ Advance
    /\ state' = "MATCH_TOKEN"
    /\ idx' = IF start_flag THEN idx + 1 ELSE idx
    /\ start_flag' = TRUE
    /\ UNCHANGED <<job, path, section, vars, vals>>

SkipSlash ==
    /\ At("explode", {"MATCH_TOKEN"}, {Slash})
    /\ Advance
    /\ UNCHANGED <<job, path, state, start_flag, idx, section, vars, vals>>

OpenVariable ==
    /\ At("explode", {"MATCH_TOKEN"}, {LeftBrace})
    /\ Advance
    /\ state' = "FETCH"
    /\ UNCHANGED <<job, path, start_flag, idx, section, vars, vals>>

Literal ==
    /\ At("explode", {"MATCH_TOKEN", "NORMAL"}, Plain)
    /\ Advance
    /\ state' = "NORMAL"
    /\ UNCHANGED <<job, path, start_flag, idx, section, vars, vals>>

\* The slash is read again in STATE_INIT.
EndSection ==
    /\ At("explode", {"NORMAL", "END_FETCH"}, {Slash})
    /\ state' = "INIT"
    /\ UNCHANGED <<job, path, read, start_flag, idx, section, vars, vals>>

Name ==
    /\ At("explode", {"FETCH"}, Plain)
    /\ Advance
    /\ section' = Append(section, c)
    /\ UNCHANGED <<job, path, state, start_flag, idx, vars, vals>>

CloseVariable ==
    /\ At("explode", {"FETCH"}, {RightBrace})
    /\ section # <<>>
    /\ Advance
    /\ vars' = Emplaced(vars, idx, section)
    /\ section' = <<>>
    /\ state' = "END_FETCH"
    /\ UNCHANGED <<job, path, start_flag, idx, vals>>

Fails(err) ==
    /\ job' = err
    /\ vars' = Empty
    /\ UNCHANGED <<path, read, state, start_flag, idx, section, vals>>

IllegalToken == At("explode", {"INIT", "NORMAL"}, Braces) /\ Fails("ILL_TOKEN")
AfterVariable == At("explode", {"END_FETCH"}, Plain \cup Braces) /\ Fails("ILL_TOKEN")
IllegalBegin  == At("explode", {"MATCH_TOKEN"}, {RightBrace}) /\ Fails("ILL_BEGIN")
IllegalEnd    == At("explode", {"FETCH"}, {Slash, LeftBrace}) /\ Fails("ILL_END")
NoneField     == At("explode", {"FETCH"}, {RightBrace}) /\ section = <<>> /\ Fails("NONE_FIELD")

ExplodeEnd ==
    /\ job = "explode" /\ read = Len(path)
    /\ IF state = "FETCH" THEN Fails("ILL_END")
       ELSE /\ job' = "OK"
            /\ UNCHANGED <<path, read, state, start_flag, idx, section, vars, vals>>

-----------------------------------------------------------------------------
(* fetch_path_vars *)

fetch_path_vars(p) ==
    /\ job = "OK"
    /\ Scan("fetch", p)
    /\ vals' = Empty
    /\ UNCHANGED vars

\* A section has ended; emplace keeps the first value of a name.
\* Mutant: the last.
PlacedLast == IF idx \in DOMAIN vars /\ section # <<>> THEN (vars[idx] :> section) @@ vals ELSE vals

Placed == IF idx \in DOMAIN vars /\ section # <<>> THEN Emplaced(vals, vars[idx], section) ELSE vals

ValueSlash ==
    /\ At("fetch", {"INIT"}, {Slash})
    /\ Advance
    /\ vals' = Placed
    /\ section' = <<>>
    /\ idx' = IF section # <<>> /\ start_flag THEN idx + 1 ELSE idx
    /\ start_flag' = TRUE
    /\ UNCHANGED <<job, path, state, vars>>

ValueBegin ==
    /\ At("fetch", {"INIT"}, Plain \cup Braces)
    /\ state' = "MATCH_TOKEN"
    /\ start_flag' = TRUE
    /\ UNCHANGED <<job, path, read, idx, section, vars, vals>>

ValueEnd ==
    /\ At("fetch", {"MATCH_TOKEN"}, {Slash})
    /\ state' = "INIT"
    /\ UNCHANGED <<job, path, read, start_flag, idx, section, vars, vals>>

Value ==
    /\ At("fetch", {"MATCH_TOKEN"}, Plain \cup Braces)
    /\ Advance
    /\ section' = Append(section, c)
    /\ UNCHANGED <<job, path, state, start_flag, idx, vars, vals>>

FetchEnd ==
    /\ job = "fetch" /\ read = Len(path)
    /\ job' = "fetched"
    /\ vals' = Placed
    /\ UNCHANGED <<path, read, state, start_flag, idx, section, vars>>

-----------------------------------------------------------------------------
Idle ==
    /\ job = "none" /\ path = <<>> /\ read = 0 /\ state = "INIT" /\ start_flag = FALSE
    /\ idx = 0 /\ section = <<>> /\ vars = Empty /\ vals = Empty

Next ==
    \/ job = "none" /\ \E p \in Apis : explode_path_vars(p)
    \/ FirstSection \/ NewSection \/ SkipSlash \/ OpenVariable \/ Literal \/ EndSection
    \/ Name \/ CloseVariable \/ ExplodeEnd
    \/ IllegalToken \/ AfterVariable \/ IllegalBegin \/ IllegalEnd \/ NoneField
    \/ job = "OK" /\ vars # Empty /\ \E p \in Requests : fetch_path_vars(p)
    \/ ValueSlash \/ ValueBegin \/ ValueEnd \/ Value \/ FetchEnd

Spec == Idle /\ [][Next]_urlVars

-----------------------------------------------------------------------------
(* Paths cut at their slashes, without a scanner.                           *)

Starts(p) == {i \in DOMAIN p : p[i] # Slash /\ (i = 1 \/ p[i - 1] = Slash)}

\* The section of p from i to j.
SectionAt(p, i, j) ==
    /\ i \in Starts(p) /\ j \in i..Len(p)
    /\ \A k \in i..j : p[k] # Slash
    /\ j = Len(p) \/ p[j + 1] = Slash

\* The place of the section that starts at i: how many stand before it.
Place(p, i) == Cardinality({k \in Starts(p) : k < i})

BraceFree(p, i, j) == \A k \in i..j : p[k] \notin Braces

\* A variable is a whole section, and not at the path's first character.
VariableAt(p, i, j) ==
    /\ SectionAt(p, i, j)
    /\ 1 < i /\ i + 1 < j
    /\ p[i] = LeftBrace /\ p[j] = RightBrace /\ BraceFree(p, i + 1, j - 1)

WellFormed(p) ==
    \A i, j \in DOMAIN p : SectionAt(p, i, j) => BraceFree(p, i, j) \/ VariableAt(p, i, j)

Variables(p) == {i \in DOMAIN p : \E j \in DOMAIN p : VariableAt(p, i, j)}

\* explode_path_vars accepts the paths whose braces enclose whole sections, and
\* numbers the variables as sections are numbered when a path is cut at its
\* slashes, whatever doubled, leading or trailing slashes it has.
VariablesAreSections ==
    /\ job \in {"ILL_TOKEN", "ILL_BEGIN", "ILL_END", "NONE_FIELD"} => ~WellFormed(path) /\ vars = Empty
    /\ job = "OK" =>
         /\ WellFormed(path)
         /\ DOMAIN vars = {Place(path, i) : i \in Variables(path)}
         /\ \A i, j \in DOMAIN path :
              VariableAt(path, i, j) => vars[Place(path, i)] = SubSeq(path, i + 1, j - 1)

\* Where a path has a section with a variable's number.
Named(p) == {i \in Starts(p) : Place(p, i) \in DOMAIN vars}

\* fetch_path_vars numbers the sections of a request the way explode numbered
\* those of the API: a variable gets the section at its place, the first of
\* them if its name stands twice, and none if the request is too short.
ValuesAreSections ==
    job = "fetched" =>
        /\ DOMAIN vals = {vars[Place(path, i)] : i \in Named(path)}
        /\ \A i \in Named(path) : \A j \in DOMAIN path :
             /\ SectionAt(path, i, j)
             /\ \A h \in Named(path) : h < i => vars[Place(path, h)] # vars[Place(path, i)]
             => vals[vars[Place(path, i)]] = SubSeq(path, i, j)
=============================================================================
