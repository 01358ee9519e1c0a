-------------------------------- MODULE MCAppd --------------------------------
(***************************************************************************)
(* The task registry of appd on its own, every operation in any order, and *)
(* the handlers that use it, interleaved with monitors and processes.  The *)
(* two share no state; the variable `scenario' says which one a behaviour  *)
(* is of.                                                                  *)
(***************************************************************************)
EXTENDS TaskRegistry, TLC

CONSTANTS
    NoVersion, SpawnMayFail,
    MaxTokens,          \* runtimes ever started in the registry's scenario
    MaxRuntimes,        \* launches in the handlers' scenario
    MaxSequence,        \* activations in the handlers' scenario
    HandlerU64Max       \* the registry's counters do not wrap under the handlers

VARIABLES
    scenario,
    handler_reg, handler_sequence, sessions, foreground, monitor, unit, installed, previous, thread

Handlers == INSTANCE MCAppdLifecycle
    WITH reg <- handler_reg, runtime_sequence <- handler_sequence, U64Max <- HandlerU64Max

ASSUME HandlersAssumption == Handlers!ConstantsSound

handlerVars == <<handler_reg, handler_sequence, sessions, foreground, monitor, unit, installed,
                 previous, thread>>
mcvars == <<vars, handlerVars, scenario>>

AppSymmetry == Permutations(Apps)

MCInit == scenario \in {"registry", "handlers"} /\ Init /\ Handlers!Init

MCNext ==
    /\ \/ /\ scenario = "registry" /\ runtime_sequence <= MaxTokens /\ Next
          /\ UNCHANGED handlerVars
       \/ /\ scenario = "handlers" /\ Handlers!MCNext
          /\ UNCHANGED vars
    /\ UNCHANGED scenario

MCSpec == MCInit /\ [][MCNext]_mcvars

----------------------------------------------------------------------------
(* The properties of the handlers                                          *)

\* Every active unit is the runtime of a task, and the table of runtime
\* sessions is sound, whatever monitors and handlers do in between.
SessionsSound == Handlers!SessionsSound

===============================================================================
