---------------------------- MODULE ViewCompiler ----------------------------
(***************************************************************************)
(* src/tools/ceasy_cli/src/view_compiler.c: ceasy views:compile reads      *)
(* every file under views/, refuses duplicate names, partials that are not *)
(* there and partials that include each other, and replaces                *)
(* src/generated/ceasy_views.c.  A developer edits the files meanwhile,    *)
(* several compilers may run, and each may fail or be killed anywhere.     *)
(* The build links the generated file; an installed program has no files.  *)
(***************************************************************************)
EXTENDS View, FiniteSets

CONSTANTS
    Compilers, \* processes that may run ceasy views:compile
    Edits      \* what a developer may write: a set of [path, source]

VARIABLES
    files,     \* the directory views/: a function from paths to sources
    generated, \* src/generated/ceasy_views.c
    linked,    \* the generated file that the program was built with
    installed, \* the program runs without the directory views/
    compiler,  \* the state of each compiler
    budget     \* bounds: how many edits, runs, visits and requests are left

viewVars == <<files, generated, linked, installed, compiler, budget>>

\* A generated file: its views, whether it is written to the end, and the
\* sources they were read from (bookkeeping).
NoBundle == [whole |-> TRUE, views |-> NoViews, read |-> <<>>]

\* found: the sources read, by their file; todo: files that were there from
\* the start and must be read; temporary: the compiler's own output file.
Idle == [pc |-> "idle", found |-> <<>>, todo |-> {}, temporary |-> NoBundle]

ViewInit ==
    /\ generated = NoBundle /\ linked = NoBundle /\ installed = FALSE
    /\ compiler = [c \in Compilers |-> Idle]

-----------------------------------------------------------------------------
(* What the compiler computes.                                             *)

Unmarked(segment) ==
    IF \E s \in Segments : segment = Marked(s)
    THEN CHOOSE s \in Segments : segment = Marked(s) ELSE segment

\* A bug: the mark of a partial is part of its name.
compiler_name_as_is(path) == path

\* One leading "_" is taken off every part of the path, directories included.
compiler_logical_name(path) == [i \in DOMAIN path |-> Unmarked(path[i])]

Readable(path, source) ==
    view_path_valid(compiler_logical_name(path)) /\ template_parse(source).ok

DistinctNames(found) ==
    \A p, q \in DOMAIN found :
        compiler_logical_name(p) = compiler_logical_name(q) => p = q

\* The programs by their logical names; only used when these are distinct.
Translated(found) ==
    LET File(name) == CHOOSE p \in DOMAIN found : compiler_logical_name(p) = name
    IN  [name \in {compiler_logical_name(p) : p \in DOMAIN found} |->
            template_parse(found[File(name)]).code]

Partials(code) == {code[i].value : i \in {j \in DOMAIN code : code[j].type = ">"}}

compiler_validate_partials(views) ==
    \A name \in DOMAIN views : Partials(views[name]) \subseteq DOMAIN views

\* Depth first through the partials: 0 not visited, 1 on the way, 2 finished.
Entries(views) == [name : DOMAIN views, state : [DOMAIN views -> 0 .. 2]]
Entry(name, state) == [name |-> name, state |-> state]
Walk(ok, state) == [ok |-> ok, state |-> state]

\* One instruction; visit says what comes of a visit one level deeper.
Visited(visit, walk, instruction) ==
    IF ~walk.ok \/ instruction.type # ">" THEN walk
    ELSE CASE walk.state[instruction.value] = 1 -> Walk(FALSE, walk.state)
           [] walk.state[instruction.value] = 0 -> visit[Entry(instruction.value, walk.state)]
           [] OTHER -> walk

\* The walk after each instruction of a view.
Through(code, v, visit) ==
    LET walk[i \in 0 .. Len(code)] ==
            IF i = 0 THEN Walk(TRUE, [v.state EXCEPT ![v.name] = 1])
            ELSE Visited(visit, walk[i - 1], code[i])
    IN  walk

Finished(walk, name) == IF walk.ok THEN Walk(TRUE, [walk.state EXCEPT ![name] = 2]) ELSE walk

\* A visit inside n others has n names on the way: none is left at the bottom.
compiler_visit(views) ==
    LET visit[n \in 0 .. Cardinality(DOMAIN views)] ==
            [v \in Entries(views) |->
                IF n = 0 THEN Walk(FALSE, v.state)
                ELSE Finished(Through(views[v.name], v, visit[n - 1])[Len(views[v.name])], v.name)]
    IN  visit

\* The walk after each view, in any order.
WalkOver(views, names, visit) ==
    LET walk[k \in 0 .. Len(names)] ==
            IF k = 0 THEN Walk(TRUE, [name \in DOMAIN views |-> 0])
            ELSE IF walk[k - 1].ok /\ walk[k - 1].state[names[k]] = 0
            THEN visit[Entry(names[k], walk[k - 1].state)] ELSE walk[k - 1]
    IN  walk

compiler_validate_cycles(views) ==
    LET names == SetToSeq(DOMAIN views)
    IN  WalkOver(views, names, compiler_visit(views)[Cardinality(DOMAIN views)])[Len(names)].ok

Acceptable(found) ==
    /\ DistinctNames(found)
    /\ compiler_validate_partials(Translated(found))
    /\ compiler_validate_cycles(Translated(found))

-----------------------------------------------------------------------------
(* A run of the compiler.                                                  *)

WithFile(site, path, source) ==
    [p \in DOMAIN site \cup {path} |-> IF p = path THEN source ELSE site[p]]

Proceeds(c, pc) == compiler' = [compiler EXCEPT ![c].pc = pc]
Ends(c) == compiler' = [compiler EXCEPT ![c] = Idle]

CompilerStarts(c) ==
    /\ compiler[c].pc = "idle" /\ budget.runs > 0 /\ ~installed
    /\ budget' = [budget EXCEPT !.runs = @ - 1]
    /\ compiler' = [compiler EXCEPT ![c].pc = "scan", ![c].todo = DOMAIN files]
    /\ UNCHANGED <<files, generated, linked, installed>>

\* The directory is read in any order; a file that does not parse ends the run.
compiler_add(c) ==
    /\ compiler[c].pc = "scan"
    /\ \E path \in DOMAIN files \ DOMAIN compiler[c].found :
          IF Readable(path, files[path])
          THEN compiler' = [compiler EXCEPT ![c].found = WithFile(@, path, files[path])]
          ELSE Ends(c)
    /\ UNCHANGED <<files, generated, linked, installed, budget>>

\* A file that was there all the time has been read.
Scanned(c) == compiler[c].todo \cap DOMAIN files \subseteq DOMAIN compiler[c].found

compiler_validate(c) ==
    /\ compiler[c].pc = "scan" /\ Scanned(c)
    /\ IF Acceptable(compiler[c].found) THEN Proceeds(c, "open") ELSE Ends(c)
    /\ UNCHANGED <<files, generated, linked, installed, budget>>

Output(c, whole) ==
    [whole |-> whole, views |-> Translated(compiler[c].found), read |-> compiler[c].found]

\* A bug: the generated file is written in place.
TargetInPlace(c) == [temporary |-> Output(c, TRUE), generated |-> Output(c, FALSE)]

\* fopen empties the compiler's own file, not the generated one.
Target(c) == [temporary |-> Output(c, FALSE), generated |-> generated]

compiler_open(c) ==
    /\ compiler[c].pc = "open"
    /\ compiler' = [compiler EXCEPT ![c].pc = "write", ![c].temporary = Target(c).temporary]
    /\ generated' = Target(c).generated
    /\ UNCHANGED <<files, linked, installed, budget>>

compiler_written(c) ==
    /\ compiler[c].pc = "write"
    /\ compiler' = [compiler EXCEPT ![c].pc = "rename", ![c].temporary = Output(c, TRUE)]
    /\ UNCHANGED <<files, generated, linked, installed, budget>>

compiler_rename(c) ==
    /\ compiler[c].pc = "rename"
    /\ generated' = compiler[c].temporary
    /\ Ends(c)
    /\ UNCHANGED <<files, linked, installed, budget>>

\* Any call may fail, and the process may be killed; what it leaves behind is
\* its own temporary file at most, which nothing reads.
CompilerStops(c) ==
    /\ compiler[c].pc # "idle"
    /\ Ends(c)
    /\ UNCHANGED <<files, generated, linked, installed, budget>>

-----------------------------------------------------------------------------
(* Around it.                                                              *)

WithoutFile(path) == [p \in DOMAIN files \ {path} |-> files[p]]

Edit ==
    /\ budget.edits > 0 /\ ~installed
    /\ budget' = [budget EXCEPT !.edits = @ - 1]
    /\ \/ \E e \in Edits : files' = WithFile(files, e.path, e.source)
       \/ \E path \in DOMAIN files : files' = WithoutFile(path)
    /\ UNCHANGED <<generated, linked, installed, compiler>>

\* A build while the generated file is not whole does not compile.
Build ==
    /\ ~installed /\ generated.whole /\ linked # generated
    /\ linked' = generated
    /\ UNCHANGED <<files, generated, installed, compiler, budget>>

Install ==
    /\ ~installed /\ installed' = TRUE
    /\ UNCHANGED <<files, generated, linked, compiler, budget>>

ViewNext ==
    \/ Edit \/ Build \/ Install
    \/ \E c \in Compilers :
          \/ CompilerStarts(c) \/ compiler_add(c) \/ compiler_validate(c)
          \/ compiler_open(c) \/ compiler_written(c) \/ compiler_rename(c)
          \/ CompilerStops(c)

\* What a request finds: the files, if they are there, before the linked views.
Library ==
    [files |-> IF installed THEN NoViews ELSE files, bundle |-> linked.views,
     read |-> linked.read]
=============================================================================
