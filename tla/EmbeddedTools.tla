---------------------------- MODULE EmbeddedTools ----------------------------
(***************************************************************************)
(* The helpers inside the program (src/src/embedded_tools.cpp)             *)
(*                                                                         *)
(* Retro Burner carries its helpers as resources.  The first look at the   *)
(* drives writes them, one after the other, into a directory named after   *)
(* the process; the store that did so is a static object, so the outcome   *)
(* stays for the life of the process, and its destructor removes the       *)
(* directory after everything else is gone.  A process that is killed      *)
(* leaves its directory behind, and a later one may be given its number.   *)
(***************************************************************************)
EXTENDS Naturals, Sequences, FiniteSets

CONSTANT Tools   \* the resources, in the order in which they are written

ASSUME ToolsAssumption == Tools \in Seq(STRING) /\ Tools # <<>>

VARIABLES
  store,      \* is the store not yet built, at work, ready, failed, or gone?
  extracted,  \* how many tools it has written
  bin         \* what the directory has of each tool

toolVars == <<store, extracted, bin>>

Names    == {Tools[i] : i \in DOMAIN Tools}
\* "old" is a tool that another process wrote, perhaps of another version.
Copies   == {"absent", "partial", "old", "whole"}
NoFiles  == [t \in Names |-> "absent"]
AllWhole == [t \in Names |-> "whole"]

\* remove_all: whatever cannot be removed stays, and the error is ignored.
Removals(files) ==
  {f \in [Names -> Copies] :
     \A t \in Names : f[t] \in {"absent", files[t]}}

InitTools == store = "unborn" /\ extracted = 0 /\ bin = NoFiles

\* GetTempPath and create_directories
CreateDirectory ==
  /\ store = "unborn"
  /\ store' \in {"extracting", "failed"}
  /\ extracted' = 0
  /\ UNCHANGED bin

\* WriteResourceToFile: the next tool.  A file that is there already is
\* truncated; a failure may come before or after that.  The first failure ends
\* the construction and removes what there is.
WriteTool_KeepsGoing ==
  /\ store = "extracting"
  /\ LET tool == Tools[extracted + 1]
     IN  \E left \in {bin[tool], "partial", "whole"} :
           bin' = [bin EXCEPT ![tool] = left]
  /\ extracted' = extracted + 1
  /\ store' = IF extracted' = Len(Tools) THEN "ready" ELSE store

WriteTool ==
  /\ store = "extracting"
  /\ LET tool == Tools[extracted + 1]
     IN  \/ /\ bin' = [bin EXCEPT ![tool] = "whole"]
            /\ extracted' = extracted + 1
            /\ store' = IF extracted' = Len(Tools) THEN "ready" ELSE store
         \/ \E left \in {bin[tool], "partial"} :
              /\ bin' \in Removals([bin EXCEPT ![tool] = left])
              /\ store' = "failed"
              /\ UNCHANGED extracted

\* A process dies between the truncation and the last byte of a tool.
Interrupt ==
  /\ store' = "gone"
  /\ IF store = "extracting"
     THEN \E left \in {bin[Tools[extracted + 1]], "partial"} :
            bin' = [bin EXCEPT ![Tools[extracted + 1]] = left]
     ELSE UNCHANGED bin
  /\ UNCHANGED extracted

\* ~EmbeddedToolStore, or a process that never built a store
DestroyStore ==
  /\ store \in {"unborn", "ready", "failed"} /\ store' = "gone"
  /\ bin' \in IF store = "unborn" THEN {bin} ELSE Removals(bin)
  /\ UNCHANGED extracted

\* A new process, with the number of the last one or with another
NewProcess ==
  /\ store = "gone" /\ store' = "unborn"
  /\ extracted' = 0
  /\ bin' \in {NoFiles, [t \in Names |-> IF bin[t] = "whole" THEN "old"
                                         ELSE bin[t]]}

\* EmbeddedToolPaths::Ready
Ready == store = "ready"

\* The type of the variables
ToolsOK ==
  /\ store \in {"unborn", "extracting", "ready", "failed", "gone"}
  /\ extracted \in 0 .. Len(Tools)
  /\ bin \in [Names -> Copies]
=============================================================================
