------------------------------- MODULE Router -------------------------------
(***************************************************************************)
(* Which handler answers an HTTP request: the static registration of the   *)
(* endpoints in FunctionMapper and in their services, BrpcDispatcher's     *)
(* check of the services, and BrpcService::entry.  brpc itself is outside: *)
(* it may refuse a service, and it may deliver any path.                   *)
(***************************************************************************)
EXTENDS UrlTrie

CONSTANTS
    Services,   \* the registered services
    Endpoints,  \* what rellaf_brpc_http_def_api can declare:
                \* [service, sign, method, func, api, params, vars, body]
    Requests,   \* [path, method, query, body]
    VarOrder,   \* the variables' names in the order of std::map
    Default     \* what a member starts with

HasVar(path) == \E i \in DOMAIN path : path[i].isVar

\* An API opens with a literal: bind_api_sign takes the last character of what
\* stands before the first variable.
ASSUME RouterAssumption ==
    /\ \A e \in Endpoints :
          e.service \in Services /\ e.api \in Seq(Section) /\ e.api # <<>> /\ ~e.api[1].isVar
    /\ \A r \in Requests : r.path \in Seq(Section) /\ r.path # <<>>
    /\ VarOrder \in Seq(Texts)

\* #_sign_"-"#_method_"-"#_func_: the service is no part of it.
Name(e) == <<e.sign, e.method, e.func>>

VARIABLES
    _api_hdrs,          \* name of each API text
    _path_vars,         \* the UrlTrie
    _funcs,             \* endpoint whose lambda each name calls
    _api_sign_mapper,   \* by service: the paths bound to a sign
    server,             \* "down", "up" or "refused"
    declared,           \* history: the endpoints, in the order of registration
    reply               \* the last request and its answer

vars == <<_api_hdrs, _path_vars, _funcs, _api_sign_mapper, server, declared, reply>>

NoReply == [status |-> "none"]

Init ==
    /\ _api_hdrs = <<>> /\ _path_vars = EmptyTrie /\ _funcs = <<>>
    /\ _api_sign_mapper = [s \in Services |-> {}]
    /\ server = "down" /\ declared = <<>> /\ reply = NoReply

\* The trailing slash goes; of an API with a variable only the text before it
\* is bound, in a table of its own that reg_http_serivces does not ask.
bind_api_sign(mapper, e) ==
    LET path == IF Len(e.api) > 1 /\ Last(e.api) = EmptySection THEN Front(e.api) ELSE e.api
    IN  IF HasVar(e.api) THEN mapper ELSE [mapper EXCEPT ![e.service] = @ \cup {path}]

\* A static Reg: every table keeps the first entry of a key.
Register(e) ==
    /\ server = "down"
    /\ e \notin Range(declared)
    /\ _api_sign_mapper' = bind_api_sign(_api_sign_mapper, e)
    /\ _api_hdrs' = Emplaced(_api_hdrs, e.api, Name(e))
    /\ _path_vars' = IF HasVar(e.api) THEN put(_path_vars, e.api, Name(e)) ELSE _path_vars
    /\ _funcs' = Emplaced(_funcs, Name(e), e)
    /\ declared' = Append(declared, e)
    /\ UNCHANGED <<server, reply>>

reg_http_serivces ==
    /\ server = "down"
    /\ \/ server' = "refused"   \* a service without a plain API, or brpc refuses
       \/ server' = "up" /\ \A s \in Services : _api_sign_mapper[s] # {}
    /\ UNCHANGED <<_api_hdrs, _path_vars, _funcs, _api_sign_mapper, declared, reply>>

\* Mutant: the templates are asked before the plain texts.
fetch_nameTemplatesFirst(path) ==
    LET found == fetch_vars(_path_vars, path)
    IN  IF found = NotFound /\ path \in DOMAIN _api_hdrs
        THEN [name |-> _api_hdrs[path], vals |-> <<>>] ELSE found

fetch_name(path) ==
    IF path \in DOMAIN _api_hdrs
    THEN [name |-> _api_hdrs[path], vals |-> <<>>]
    ELSE fetch_vars(_path_vars, path)

\* prepare_args: an object takes from what is given the members of its names, in
\* a plain the first path variable is put, in the order of their names.
Filled(members, given) ==
    [m \in members |-> IF m \in DOMAIN given THEN given[m] ELSE Default]

FirstVal(vals) ==
    LET at == {i \in DOMAIN VarOrder : VarOrder[i] \in DOMAIN vals}
    IN  IF at = {} THEN Default ELSE vals[VarOrder[CHOOSE i \in at : \A j \in at : i <= j]]

\* A plain takes any body; the others, Void among them, an empty one or JSON.
BodyRefused(e, body) == e.body # "plain" /\ body = "text"

prepare_args(e, vals, request) ==
    [params |-> Filled(e.params, request.query),
     vars   |-> IF e.vars.isPlain THEN FirstVal(vals) ELSE Filled(e.vars.members, vals)]

\* entry and invoke: no handler is 404; a handler that returns -1, as it does
\* when its body is refused, is still answered 200, for the 500 is set on the
\* request.
entry(request) ==
    LET found == fetch_name(request.path)
        e == _funcs[found.name]
    IN  IF found.name \notin DOMAIN _funcs
        THEN [status |-> "404", request |-> request]
        ELSE IF BodyRefused(e, request.body)
        THEN [status |-> "200", ran |-> FALSE, request |-> request,
              handler |-> e, name |-> found.name]
        ELSE [status |-> "200", ran |-> TRUE, request |-> request,
              handler |-> e, name |-> found.name,
              args |-> prepare_args(e, found.vals, request)]

\* A request changes no table, so one is enough for each state of the tables.
Request(request) ==
    /\ server = "up" /\ reply = NoReply
    /\ reply' = entry(request)
    /\ UNCHANGED <<_api_hdrs, _path_vars, _funcs, _api_sign_mapper, server, declared>>

Next ==
    \/ \E e \in Endpoints : Register(e)
    \/ reg_http_serivces
    \/ \E r \in Requests : Request(r)

Spec == Init /\ [][Next]_vars

-----------------------------------------------------------------------------
(* The tables are judged by the declarations alone.                         *)

Answered == reply.status = "200"
Path == reply.request.path
Declared(e) == e \in Range(declared)
Before(e, f) == \E i, j \in DOMAIN declared : i < j /\ declared[i] = e /\ declared[j] = f

Template(e) == split(e.api)

\* e's template and the path agree, section by section.
Fits(e, path) ==
    LET t == Template(e)  p == split(path)
    IN  HasVar(e.api) /\ Len(t) = Len(p) /\ \A i \in DOMAIN t : t[i].isVar \/ t[i] = p[i]

SameUpTo(s, t, i) == Above(Shape(s), i) = Above(Shape(t), i)

\* Both templates have a variable after the same i - 1 edges.
ShareVar(e, f, i) ==
    LET s == Template(e)  t == Template(f)
    IN  i \in DOMAIN s \cap DOMAIN t /\ s[i].isVar /\ t[i].isVar /\ SameUpTo(s, t, i)

\* Two services may declare one sign, method and function.
NamesApart == \A e, f \in Range(declared) : Name(e) = Name(f) => e = f

Exact(path) == {e \in Range(declared) : e.api = path}

\* A request runs a handler declared for its path, unless two services
\* declared one sign, method and function (function_mapper.hpp:103-106).
HandlerMatches ==
    Answered /\ NamesApart =>
        LET e == reply.handler
        IN  Declared(e) /\ (e.api = Path \/ Fits(e, Path))

\* The first declaration of the very text of the path wins over every template,
\* however late it came (function_mapper.hpp:68-71).
ExactFirst ==
    reply.status # "none" /\ Exact(Path) # {} =>
        /\ Answered
        /\ \E e \in Exact(Path) :
               Name(e) = reply.name /\ ~\E f \in Exact(Path) : Before(f, e)

\* A template is passed over only where another one, the same up to there, has
\* the literal section of the path (the missing backtrace, var_pattern.cpp:423).
MissedOnlyBehindLiteral ==
    reply.status = "404" =>
        \A e \in Range(declared) : Fits(e, Path) =>
            \E f \in Range(declared), i \in DOMAIN Template(e) :
                /\ HasVar(f.api)
                /\ i \in DOMAIN Template(f) /\ SameUpTo(Template(e), Template(f), i)
                /\ Template(e)[i].isVar /\ Template(f)[i] = split(Path)[i]

\* The endpoint a template found: the last declared of its shape.
ByTemplate(e) == Answered /\ Exact(Path) = {} /\ Name(e) = reply.name /\ Fits(e, Path)

\* Of the templates that differ only in variable names the last declared
\* answers, where of two equal plain texts the first does (var_pattern.cpp:416).
LastTemplateWins ==
    Answered /\ Exact(Path) = {} =>
        \E e \in Range(declared) :
            /\ ByTemplate(e)
            /\ ~\E f \in Range(declared) :
                   Before(e, f) /\ Shape(Template(e)) = Shape(Template(f))

\* A handler that runs gets its arguments from where they belong: a parameter
\* is what the query says; a variable is the section at its place in the
\* template, under the name that the first template with a variable there gave
\* it, which need not be the handler's own: then the handler's member stays as
\* it was.  Names shared by two services excepted.  (prepare_args, brpc_service.h:121-166; var_pattern.cpp:401-402, 440)
ArgumentsArrive ==
    Answered /\ reply.ran /\ NamesApart =>
        LET e == reply.handler
            p == split(Path)
            at == IF Exact(Path) # {} THEN {} ELSE {i \in DOMAIN p : Template(e)[i].isVar}
            named(i) == CHOOSE f \in Range(declared) :
                ShareVar(e, f, i) /\ ~\E g \in Range(declared) : ShareVar(e, g, i) /\ Before(g, f)
            name(i) == Template(named(i))[i].text
            given == [x \in {name(i) : i \in at} |-> p[Min({i \in at : name(i) = x})]]
        IN  /\ \A m \in e.params :
                  reply.args.params[m] =
                      IF m \in DOMAIN reply.request.query THEN reply.request.query[m] ELSE Default
            /\ IF e.vars.isPlain
               THEN \A k \in DOMAIN VarOrder :
                        /\ VarOrder[k] \in DOMAIN given
                        /\ \A j \in 1..k - 1 : VarOrder[j] \notin DOMAIN given
                        => reply.args.vars = given[VarOrder[k]]
               ELSE \A m \in e.vars.members :
                        reply.args.vars[m] = IF m \in DOMAIN given THEN given[m] ELSE Default

\* "POST and GET requests of the same API can be mapped directly to different
\* handlers" (docs/reference.md:556).
GetAndPostApart ==
    Answered /\ (\E e \in Exact(Path) : e.method = reply.request.method) =>
        reply.handler.method = reply.request.method
=============================================================================
