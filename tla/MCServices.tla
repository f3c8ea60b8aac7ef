------------------------------- MODULE MCServices -------------------------------
(***************************************************************************)
(* TLC instances of the parts that share no state: git in a Home, the      *)
(* scheduler, the live events, the language service, the assistant's       *)
(* providers and its context, the secrets, the tabs of a file and of a     *)
(* table, a notebook in its process. Init chooses the one that runs; the   *)
(* others stay where they are, so that each part is explored completely,   *)
(* and alone. "cells" and "context" only look at notebooks.                *)
(***************************************************************************)
EXTENDS GitProperties, Scheduler, LiveEvents, LspService, AssistantProviders,
        SecretEnv, FileEditing, DataPreview, AssistantContext,
        SandboxRun, TLC

CONSTANTS file1, main, side, hub1, process1, process2,
          query1, query2, query3, provider1, provider2, admin1, admin2, call1,
          upsert1, upsert2, session1, tab1, tab2

VARIABLE part

\* Two cron expressions: every second tick, and every third
MCFireTimes == [c \in {"even", "third"} |-> IF c = "even" THEN {2, 4} ELSE {3}]

\* A request of the least size, for the other parts
NoRequest ==
    [cells |-> <<>>, active |-> 0, cursor |-> NoCursor, error |-> 0, files |-> 0,
     budget |-> Min(CharBudgets), near |-> Min(NearCells)]

MCInit ==
    /\ part \in {"git", "scheduler", "live", "lsp", "cells", "assistant", "env",
                 "editing", "preview", "context", "sandbox"}
    /\ GitInit /\ SchedulerInit /\ LiveInit /\ LspInit /\ AssistantInit /\ EnvInit
    /\ EditInit /\ PreviewInit /\ SandboxInit
    /\ part # "scheduler" => schedule.cron = "even" /\ schedule.enabled
    /\ part # "live" => topic = "execution"
    /\ part # "cells" => notebook = <<1>>
    /\ part # "assistant" => \A p \in Provider : provider[p] = Gone
    /\ part # "editing" => editorKind = "text"
    /\ part # "preview" => rowCount = 0 /\ format = "csv"
    /\ part # "sandbox" => engine = "subprocess"
    /\ IF part = "context" THEN ContextInit ELSE request = NoRequest

MCNext ==
    /\ UNCHANGED <<part, contextVars>>
    /\ \/ part = "git" /\ GitNext
          /\ UNCHANGED <<schedulerVars, liveVars, lspVars, assistantVars,
                         envVars, editVars, previewVars, sandboxVars>>
       \/ part = "scheduler" /\ SchedulerNext
          /\ UNCHANGED <<gitVars, liveVars, lspVars, assistantVars,
                         envVars, editVars, previewVars, sandboxVars>>
       \/ part = "live" /\ LiveNext
          /\ UNCHANGED <<gitVars, schedulerVars, lspVars, assistantVars,
                         envVars, editVars, previewVars, sandboxVars>>
       \/ part = "lsp" /\ LspNext
          /\ UNCHANGED <<gitVars, schedulerVars, liveVars, assistantVars,
                         envVars, editVars, previewVars, sandboxVars>>
       \/ part = "assistant" /\ AssistantNext
          /\ UNCHANGED <<gitVars, schedulerVars, liveVars, lspVars,
                         envVars, editVars, previewVars, sandboxVars>>
       \/ part = "env" /\ EnvNext
          /\ UNCHANGED <<gitVars, schedulerVars, liveVars, lspVars,
                         assistantVars, editVars, previewVars, sandboxVars>>
       \/ part = "editing" /\ EditNext
          /\ UNCHANGED <<gitVars, schedulerVars, liveVars, lspVars,
                         assistantVars, envVars, previewVars, sandboxVars>>
       \/ part = "preview" /\ PreviewNext
          /\ UNCHANGED <<gitVars, schedulerVars, liveVars, lspVars,
                         assistantVars, envVars, editVars, sandboxVars>>
       \/ part = "sandbox" /\ SandboxNext
          /\ UNCHANGED <<gitVars, schedulerVars, liveVars, lspVars,
                         assistantVars, envVars, editVars, previewVars>>

MCVars == <<part, gitVars, schedulerVars, liveVars, lspVars, assistantVars, envVars,
            editVars, previewVars, contextVars, sandboxVars>>

\* Every variable keeps its type in the part that runs and in those that stand still.
ServicesTypeOK ==
    /\ GitTypeOK /\ SchedulerTypeOK /\ LiveTypeOK /\ LspTypeOK /\ AssistantTypeOK
    /\ EnvTypeOK /\ EditTypeOK /\ PreviewTypeOK /\ ContextTypeOK
    /\ SandboxTypeOK

MCSpec == MCInit /\ [][MCNext]_MCVars
===============================================================================
