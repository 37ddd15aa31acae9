-------------------------------- MODULE Api ----------------------------------
(***************************************************************************)
(* The SAA interface (rexxsaa.c, client.c, macros.c): an application, or   *)
(* the main program of Regina, runs scripts that call functions and exits  *)
(* of libraries, which may call the interface again.  What runs is a stack *)
(* of C frames; an error leaves them with longjmp, for the script that     *)
(* runs innermost, and what the frames above it had still to do is not     *)
(* done.                                                                   *)
(***************************************************************************)
EXTENDS Libraries
CONSTANTS
    Registrable,    \* triples of a slot, a name and a library, or Exe
    ExitLists,      \* what RexxStart may be given: sets of codes, all handled by one exit
    EnvNames,       \* environments to run scripts in
    Hows,           \* the sorts of scripts: "external", "instore", "source"
    MaxFrames, MaxLost, MaxOrphans      \* bounds

ASSUME ApiAssumption ==
    /\ Registrable \subseteq Slots \X STRING \X (Lib \cup {Exe})
    /\ \A x \in ExitLists : x \subseteq {"RXINI", "RXTER", "RXFNC", "RXCMD", "RXSIO"}
    /\ Hows \subseteq {"external", "instore", "source"}
    /\ Exe \notin Lib

VARIABLES
    libs,       \* the libraries and what is registered
    handlers,   \* CurrentHandlers: of each RexxStart the libraries of its exits by code
    frames,     \* what runs, the innermost last
    basefile,   \* the first systeminfo has an input_file
    envs,       \* the environments, the newest last
    lost        \* how many RexxStart have returned or been left without taking their handlers

vars == <<libs, handlers, frames, basefile, envs, lost>>

Top == frames[Len(frames)]
Below == SubSeq(frames, 1, Len(frames) - 1)
Push(f) == Append(frames, f)
WithTop(f) == [frames EXCEPT ![Len(frames)] = f]
Highest(S) == IF S = {} THEN 0 ELSE CHOOSE k \in S : \A j \in S : j <= k

\* TSD->systeminfo: the script that runs innermost, 0 for the first system.
System == Highest({k \in DOMAIN frames : frames[k].kind = "script"})
OfMain(k) == frames[k].how = "main"
HasFile == IF System = 0 THEN basefile ELSE frames[System].file
\* It is the first system and has no program.
IsSafe(k, file) == (k = 0 \/ OfMain(k)) /\ ~file
Safe == IsSafe(System, HasFile)

Script(how, hooks) == [kind |-> "script", how |-> how, hooks |-> hooks, file |-> TRUE,
    bared |-> FALSE,    \* for the properties: a RexxStart from within has ended
    phase |-> "init", doTermHook |-> FALSE, begun |-> FALSE, terms |-> 0, again |-> FALSE,
    failed |-> FALSE]
StartOf(how, exits, env) ==
    [kind |-> "start", how |-> how, exits |-> exits, env |-> env, phase |-> "setup"]
\* Code of an application or a library: why it was called, and what is still to
\* be called when it is a system exit that leaves the call to others.
Native(why, b, then) == [kind |-> "native", why |-> why, lib |-> b, then |-> then,
    args |-> why \in {"function", "funcexit"}]
Label == [kind |-> "label"]

NoOne == [name |-> "", lib |-> Exe]
MainScript == [Script("main", {}) EXCEPT !.phase = "run"]

Init ==
    /\ libs = Nothing
    /\ handlers = <<>>
    /\ frames \in {<<>>, <<MainScript>>}
    /\ basefile = FALSE
    /\ envs = <<[name |-> "SYSTEM", pipe |-> FALSE, subcomed |-> FALSE]>>
    /\ lost = 0

----------------------------------------------------------------------------
\* Environments (envir.c).
find_envir(name) == Highest({k \in DOMAIN envs : envs[k].name = name})
Piped(name) == Append(envs, [name |-> name, pipe |-> TRUE, subcomed |-> FALSE])
set_subcomed_envir(name, flag) ==
    IF find_envir(name) = 0 THEN envs ELSE [envs EXCEPT ![find_envir(name)].subcomed = flag]
del_envir(name) == IF find_envir(name) = 0 THEN envs ELSE RemoveAt(envs, find_envir(name))

----------------------------------------------------------------------------
\* What an application or library may call.
MayCall == frames # <<>> => Top.kind = "native"

\* IfcRegFunc, IfcRegExit, IfcRegSubcom: the environment of a command handler is
\* marked before it is known whether there will be a handler.
MayAdd(b, loads) ==
    /\ b \in libs.linked \cup {Exe} => loads
    /\ \A c \in Lib \cap {b} : libs.orphans[c] < MaxOrphans
Register ==
    /\ MayCall
    /\ \E r \in Registrable, loads, exported \in BOOLEAN :
        /\ MayAdd(r[3], loads)
        /\ libs' = IF r[1] = "FUNCS" THEN rex_funcadd(libs, r[2], r[3], loads, exported, Safe)
                   ELSE rex_hookadd(libs, r[1], r[2], r[3], loads, exported, Safe)
        /\ envs' = IF r[1] = "SUBCOMS" THEN set_subcomed_envir(r[2], TRUE) ELSE envs
    /\ UNCHANGED <<handlers, frames, basefile, lost>>

Deregister ==
    /\ MayCall
    /\ \E r \in Registrable :
        /\ libs' = unload_entry(libs, r[1], r[2], IF r[1] = "FUNCS" THEN Exe ELSE r[3], Safe)
        /\ envs' = IF r[1] = "SUBCOMS" THEN set_subcomed_envir(r[2], FALSE) ELSE envs
    /\ UNCHANGED <<handlers, frames, basefile, lost>>

\* The exits that are registered of those a RexxStart is given.
Chosen(exits) ==
    LET k == find_first_entry_point(libs, "EXITS", "x")
    IN  IF k = None THEN <<>> ELSE [c \in exits |-> libs.entries["EXITS"][k].lib]
exit_hook(code) == handlers # <<>> /\ code \in DOMAIN handlers[Len(handlers)]
Handler(code) == handlers[Len(handlers)][code]

\* RexxStart as far as ScriptSetup: the program's name becomes that of the system
\* that is running.
Start ==
    /\ MayCall /\ Len(frames) + 2 <= MaxFrames
    /\ \E how \in Hows, x \in ExitLists, e \in EnvNames :
        /\ handlers' = Append(handlers, Chosen(x))
        /\ frames' = IF System = 0 THEN Push(StartOf(how, DOMAIN Chosen(x), e))
                     ELSE Append([frames EXCEPT ![System].file = TRUE],
                                 StartOf(how, DOMAIN Chosen(x), e))
        /\ basefile' = (basefile \/ System = 0)
        /\ envs' = IF find_envir(e) = 0 \/ envs[find_envir(e)].subcomed THEN Piped(e) ELSE envs
    /\ UNCHANGED <<libs, lost>>

\* A list of exits with an empty name or an unknown code: the handlers stay.
StartRefused ==
    /\ MayCall /\ lost < MaxLost
    /\ \E x \in ExitLists : handlers' = Append(handlers, Chosen(x))
    /\ lost' = lost + 1
    /\ UNCHANGED <<libs, frames, basefile, envs>>

\* RexxCallBack of a label of the script.
CallBack ==
    /\ frames # <<>> /\ Top.kind = "native" /\ System # 0 /\ Len(frames) < MaxFrames
    /\ frames' = Push(Label)
    /\ UNCHANGED <<libs, handlers, basefile, envs, lost>>

----------------------------------------------------------------------------
\* An error in the frames above k: to a trap of the script or of its routines, or
\* to the end of the script, the innermost system.  The handlers of a RexxStart
\* that is left on the way stay.
Running(f) == f.kind = "label" \/ (f.kind = "script" /\ f.phase = "run")
Failures(fs) ==
    LET sys == Highest({k \in DOMAIN fs : fs[k].kind = "script"})
    IN  {SubSeq(fs, 1, k) : k \in {k \in sys..Len(fs) : Running(fs[k])}}
        \cup {Append(SubSeq(fs, 1, sys - 1), [fs[sys] EXCEPT !.phase = "end", !.failed = TRUE])}
\* The buffers for arguments are one for the thread: a function that calls the
\* interface again loses its own to the next function.
MakeParams(fs) == [k \in DOMAIN fs |->
    IF fs[k].kind = "native" THEN [fs[k] EXCEPT !.args = FALSE] ELSE fs[k]]

\* The script of a RexxStart begins, or its source has an error, or it is not
\* found or only to be translated.
ScriptBegins ==
    /\ frames # <<>> /\ Top.kind = "start" /\ Top.phase = "setup"
    /\ \/ frames' = Push(Script(Top.how, Top.exits))
          /\ lost' = lost
       \/ frames' = WithTop([Top EXCEPT !.phase = "done"])
          /\ lost' = lost
       \/ Top.how = "source" /\ System # 0 /\ lost < MaxLost
          /\ frames' \in Failures(frames) /\ lost' = lost + 1
       \/ \* a file with an error in it: the system is there, but nothing has run
          /\ Top.how = "external"
          /\ frames' = Push([Script(Top.how, Top.exits) EXCEPT !.phase = "end", !.failed = TRUE])
          /\ lost' = lost
    /\ UNCHANGED <<libs, handlers, basefile, envs>>

\* (Mutant: whichever it was, the handlers that were there first go.)
WithoutFirst(h) == Tail(h)
WithoutNewest(h) == Front(h)
\* ScriptCleanup and the rest of RexxStart, whatever it was that ended.
FinishStart ==
    /\ frames # <<>> /\ Top.kind = "start" /\ Top.phase = "done"
    /\ envs' = del_envir(Top.env)
    /\ handlers' = WithoutNewest(handlers)
    /\ frames' = IF System = 0 THEN Below
                 ELSE [Below EXCEPT ![System].file = FALSE, ![System].bared = OfMain(System)]
    /\ basefile' = (basefile /\ System # 0)
    /\ libs' = unlink_orphaned_libs(libs, IsSafe(System, FALSE))
    /\ UNCHANGED lost

----------------------------------------------------------------------------
\* The exits at the begin and the end of a script (hookup, IfcDoExit).
Calls(code, why, after) ==
    frames' = IF code \in after.hooks /\ exit_hook(code)
              THEN Append(WithTop(after), Native(why, Handler(code), NoOne))
              ELSE WithTop(after)
InPhase(p) == frames # <<>> /\ Top.kind = "script" /\ Top.phase = p

Begun(f) == [f EXCEPT !.phase = "run", !.doTermHook = TRUE, !.begun = TRUE]
Beginning(f) == [f EXCEPT !.phase = "run"]
InitHook ==
    /\ InPhase("init") /\ Len(frames) < MaxFrames
    /\ IF "RXINI" \in Top.hooks /\ exit_hook("RXINI")
       THEN frames' = Append(WithTop(Beginning(Top)), Native("init", Handler("RXINI"), NoOne))
       ELSE frames' = WithTop(Begun(Top))
    /\ UNCHANGED <<libs, handlers, basefile, envs, lost>>

\* The exit at the end, guarded so that it is tried only once.
Behind(f) == IF f.how = "external" THEN "end2" ELSE "gone"
\* (Mutant: the guard is not taken back before the exit is called.)
TriedUnset(f) == [f EXCEPT !.terms = @ + 1, !.phase = Behind(f)]
Tried(f) == [f EXCEPT !.doTermHook = FALSE, !.terms = @ + 1, !.phase = Behind(f)]
TermHook ==
    /\ InPhase("end") /\ ~OfMain(Len(frames)) /\ Len(frames) < MaxFrames
    /\ IF Top.doTermHook
       THEN Calls("RXTER", "term", Tried(Top))
       ELSE frames' = WithTop([Top EXCEPT !.phase = Behind(Top)])
    /\ UNCHANGED <<libs, handlers, basefile, envs, lost>>
\* A file's script calls it behind that without the guard: an exit that fails here comes
\* back to the end of the script and is called again.
TermHookAgain ==
    /\ InPhase("end2") /\ Len(frames) < MaxFrames
    /\ Calls("RXTER", "term", [Top EXCEPT !.phase = "gone", !.again = TRUE])
    /\ UNCHANGED <<libs, handlers, basefile, envs, lost>>

\* killsystem, and back to whatever started the script; OPTIONS may say that a
\* routine that failed is an error of its caller.
ScriptEnds ==
    /\ InPhase("gone")
    /\ LET caller == Below[Len(Below)]
       IN  \/ frames' = IF caller.kind = "start"
                        THEN [Below EXCEPT ![Len(Below)].phase = "done"] ELSE Below
           \/ Top.failed /\ caller.kind # "start" /\ frames' \in Failures(Below)
    /\ UNCHANGED <<libs, handlers, basefile, envs, lost>>

----------------------------------------------------------------------------
\* What a script, or a routine of it that was called back, does.
InRexx == frames # <<>> /\ (Top.kind = "label" \/ InPhase("run")) /\ Len(frames) < MaxFrames
Unchanged == UNCHANGED <<libs, handlers, basefile, envs, lost>>

\* RXFUNCADD and RXFUNCDROP.
RxFuncAdd ==
    /\ InRexx
    /\ \E r \in Registrable, loads, exported \in BOOLEAN :
        /\ r[1] = "FUNCS" /\ r[3] # Exe /\ MayAdd(r[3], loads)
        /\ libs' = rex_funcadd(libs, r[2], r[3], loads, exported, Safe)
    /\ UNCHANGED <<handlers, frames, basefile, envs, lost>>
RxFuncDrop ==
    /\ InRexx
    /\ \E r \in Registrable :
        r[1] = "FUNCS" /\ libs' = unload_entry(libs, "FUNCS", r[2], Exe, Safe)
    /\ UNCHANGED <<handlers, frames, basefile, envs, lost>>

\* A function that is registered, or left to the exit (do_an_external, IfcExecFunc).
CallFunction ==
    /\ InRexx
    /\ LET k == find_first_entry_point(libs, "FUNCS", "f")
           known == IF k = None THEN NoOne ELSE libs.entries["FUNCS"][k]
       IN  IF exit_hook("RXFNC")
           THEN frames' = Append(MakeParams(frames), Native("funcexit", Handler("RXFNC"), known))
           ELSE k # None /\ frames' = Append(MakeParams(frames), Native("function", known.lib, NoOne))
    /\ Unchanged

\* A command to an environment: to the shell, or to the exit and the newest handler
\* (perform, SubCom, IfcSubCmd).
Command ==
    /\ InRexx
    /\ \E e \in EnvNames :
        LET k == find_first_entry_point(libs, "SUBCOMS", e)
            known == IF k = None THEN NoOne ELSE libs.entries["SUBCOMS"][k]
        IN  /\ find_envir(e) # 0 => envs[find_envir(e)].pipe
            /\ IF exit_hook("RXCMD")
               THEN frames' = Push(Native("cmdexit", Handler("RXCMD"), known))
               ELSE k # None /\ frames' = Push(Native("command", known.lib, NoOne))
    /\ Unchanged

\* SAY, PULL and the like with an exit for them.
InOut ==
    /\ InRexx /\ System # 0 /\ "RXSIO" \in frames[System].hooks /\ exit_hook("RXSIO")
    /\ frames' = Push(Native("io", Handler("RXSIO"), NoOne))
    /\ Unchanged

\* A routine in a file of its own (execute_external), with the exits of the caller.
Routine ==
    /\ InRexx /\ Len(frames) + 1 < MaxFrames
    /\ \E phase \in {"init", "end"} :
          frames' = Push([Script("external", frames[System].hooks) EXCEPT
                            !.phase = phase, !.failed = (phase = "end")])
    /\ Unchanged

ScriptFails ==
    /\ InRexx /\ frames' \in Failures(frames)
    /\ Unchanged

\* The end of the program or of the routine, or EXIT in either.
ScriptFinishes ==
    /\ InRexx
    /\ \/ Top.kind = "label" /\ frames' = Below
       \/ frames' = Append(SubSeq(frames, 1, System - 1), [frames[System] EXCEPT !.phase = "end"])
    /\ Unchanged

----------------------------------------------------------------------------
\* A function or an exit returns: well or with an error; or, an exit, without
\* having handled the call, which is then left to the one known for it.
After(why) == frames # <<>> /\ Top.kind = "native" /\ Top.why = why
IsKnown(e) == e # NoOne

ReturnFunction ==
    /\ After("function")
    /\ frames' = Below
    /\ Unchanged
ReturnExit ==
    /\ frames # <<>> /\ Top.kind = "native"
    /\ \/ Top.why = "funcexit" /\ IsKnown(Top.then)
          /\ frames' = WithTop([Top EXCEPT !.why = "function", !.lib = Top.then.lib, !.then = NoOne])
       \/ Top.why = "cmdexit" /\ IsKnown(Top.then)
          /\ frames' = WithTop(Native("command", Top.then.lib, NoOne))
       \/ Top.why \in {"funcexit", "cmdexit", "command", "io", "term"}
          /\ frames' = Below
       \/ Top.why = "init"
          /\ frames' = [Below EXCEPT ![Len(Below)] = Begun(@)]
    /\ Unchanged
\* (exiterror, once the call has returned; a function nobody knows is an error too.)
ReturnError ==
    /\ frames # <<>> /\ Top.kind = "native"
    /\ IF Top.why \in {"init", "term"}
       THEN frames' = [Below EXCEPT ![Len(Below)].phase = "end", ![Len(Below)].failed = TRUE]
       ELSE frames' \in Failures(frames)
    /\ Unchanged

Next == \/ Register \/ Deregister \/ Start \/ StartRefused \/ CallBack
        \/ ScriptBegins \/ FinishStart \/ InitHook \/ TermHook \/ TermHookAgain \/ ScriptEnds
        \/ RxFuncAdd \/ RxFuncDrop \/ CallFunction \/ Command \/ InOut \/ Routine \/ ScriptFails \/ ScriptFinishes
        \/ ReturnFunction \/ ReturnExit \/ ReturnError
Spec == Init /\ [][Next]_vars

----------------------------------------------------------------------------
\* The first system has lost its program to a RexxStart from within.
Bare == \E k \in DOMAIN frames : frames[k].kind = "script" /\ frames[k].bared
\* How many entries of a library there are.
Of(slot, b) == {k \in DOMAIN libs.entries[slot] : libs.entries[slot][k].lib = b}
Entries(b) == Cardinality(Of("FUNCS", b)) + Cardinality(Of("EXITS", b)) + Cardinality(Of("SUBCOMS", b))
\* No library is unmapped while its code runs, is about to be called, is an exit of
\* the script that runs or is registered, and none is kept when nothing of it is
\* registered any more; but for a main program after a RexxStart from within.
\* unlink_orphaned_libs, remove_entry, rex_funcadd.
LibrariesKept ==
    /\ \A b \in Lib : /\ libs.used[b] = Entries(b)
                      /\ (b \in libs.linked) <=> (libs.used[b] > 0)
    /\ ~Bare =>
        /\ \A k \in DOMAIN frames : frames[k].kind = "native" =>
               Mapped(libs, frames[k].lib) /\ Mapped(libs, frames[k].then.lib)
        /\ System # 0 /\ handlers # <<>> =>
               \A c \in DOMAIN handlers[Len(handlers)] : Mapped(libs, Handler(c))

Starts == {k \in DOMAIN frames : frames[k].kind = "start"}
\* The how manieth RexxStart of those that run it is.
Depth(k) == Cardinality({j \in Starts : j <= k})
\* Every RexxStart has its exits in force until it returns, one list for each that
\* runs, and one more for each that was refused or was left by an error of a source:
\* those stay.  RexxStart.
HandlersKept ==
    /\ Len(handlers) = Cardinality(Starts) + lost
    /\ lost = 0 => \A k \in Starts : DOMAIN handlers[Depth(k)] = frames[k].exits

\* A departure from "be sure to try it only once" (macros.c:376): the script of a file
\* calls its exit at the end once more behind the guarded call, due or not.
TriedAgain(f) == f.how = "external"
\* A script's exit at the end is tried once if the exit at the begin has come back well
\* and not at all otherwise, whatever fails, the exit itself too; but for TriedAgain.
\* do_instore, execute_external.
Paired(f) == /\ f.terms = (IF f.begun THEN 1 ELSE 0)
             /\ f.again => TriedAgain(f)
ExitsPaired == \A k \in DOMAIN frames :
    frames[k].kind = "script" /\ frames[k].phase = "gone" => Paired(frames[k])
=============================================================================
