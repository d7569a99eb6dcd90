----------------------------- MODULE Installer -----------------------------
(***************************************************************************)
(* The installer, installer/src/install.rs as main.rs drives it, on Linux: *)
(* the steps of an installation and of a removal over the files they       *)
(* touch.  A step may fail and a run may be cut short after any step; a    *)
(* file written in place is first empty and then whole.  The system checks *)
(* change nothing and never stop a silent run, and the directories made on *)
(* the way, which nothing removes, are left out.                           *)
(***************************************************************************)

CONSTANTS
    Default,        \* default_install_dir
    Portable,       \* directories the installer is run in with --portable
    None

Dirs == {Default} \cup Portable

\* The mode of an installation is told by its directory: one made with --portable
\* in the default directory, which gets no desktop entry, is left out.
ASSUME InstallerAssumption == Default \notin Portable /\ None \notin Dirs

\* The directory of links on the path is none of them: a portable installation
\* there would replace its binary by a link to itself.
VARIABLES
    binary,         \* of each directory: "absent", "torn" or "whole"
    link,           \* what soteriad on the path leads to
    config,         \* soteria.toml: as a binary, or "edited" by its owner
    entry,          \* the directory the desktop entry starts, or "torn"
    job,            \* the run in progress, and the step it takes next
    ready           \* the directory of an installation that returned Ok last

setupVars == <<binary, link, config, entry, job, ready>>
installed == <<binary, link, config, entry>>

NoJob == [task |-> "none", dir |-> None, step |-> "none"]
AtStep(task, step) == job.task = task /\ job.step = step
Then(step) == job' = [job EXCEPT !.step = step]

SetupInit ==
    /\ binary = [d \in Dirs |-> "absent"]
    /\ link = None /\ config = "absent" /\ entry = None
    /\ job = NoJob /\ ready = None

\* link.exists() follows the link.
LinkExists == link # None /\ binary[link] # "absent"

-----------------------------------------------------------------------------
(* run; main takes the current directory when --portable is given *)

Install(d) ==
    /\ job = NoJob
    /\ job' = [task |-> "install", dir |-> d, step |-> "binary"]
    /\ ready' = None
    /\ UNCHANGED installed

ExtractBinary ==
    /\ AtStep("install", "binary")
    /\ \/ /\ binary[job.dir] # "torn"
          /\ binary' = [binary EXCEPT ![job.dir] = "torn"]
          /\ UNCHANGED job
       \/ /\ binary[job.dir] = "torn"
          /\ binary' = [binary EXCEPT ![job.dir] = "whole"]
          /\ Then("config")
    /\ UNCHANGED <<link, config, entry, ready>>

\* What is there is kept.
SetUpConfig ==
    /\ AtStep("install", "config")
    /\ \/ /\ config = "absent"
          /\ config' = "torn" /\ Then("default")
       \/ /\ config # "absent"
          /\ Then("path") /\ UNCHANGED config
    /\ UNCHANGED <<binary, link, entry, ready>>

WriteDefaultConfig ==
    /\ AtStep("install", "default")
    /\ config' = "whole" /\ Then("path")
    /\ UNCHANGED <<binary, link, entry, ready>>

\* Mutant of AddToPath: a link that leads somewhere is left.
AddToPathOnce ==
    /\ AtStep("install", "path")
    /\ IF LinkExists THEN UNCHANGED link /\ Then("shortcuts")
       ELSE link = None /\ link' = job.dir /\ Then("shortcuts")
    /\ UNCHANGED <<binary, config, entry, ready>>

\* add_to_path: a link that leads to a file is removed first; one that leads
\* nowhere is not seen, and the new one cannot be made.
AddToPath ==
    /\ AtStep("install", "path")
    /\ \/ LinkExists /\ link' = None /\ UNCHANGED job
       \/ link = None /\ link' = job.dir /\ Then("shortcuts")
    /\ UNCHANGED <<binary, config, entry, ready>>

CreateShortcuts ==
    /\ AtStep("install", "shortcuts")
    /\ \/ /\ job.dir = Default /\ entry # "torn"
          /\ entry' = "torn" /\ UNCHANGED <<job, ready>>
       \/ /\ job.dir = Default /\ entry = "torn"
          /\ entry' = job.dir /\ job' = NoJob /\ ready' = job.dir
       \/ /\ job.dir \in Portable
          /\ UNCHANGED entry /\ job' = NoJob /\ ready' = job.dir
    /\ UNCHANGED <<binary, link, config>>

-----------------------------------------------------------------------------
(* uninstall, which always means the default directory *)

Uninstall ==
    /\ job = NoJob
    /\ job' = [task |-> "uninstall", dir |-> Default, step |-> "binary"]
    /\ ready' = None
    /\ UNCHANGED installed

RemoveBinary ==
    /\ AtStep("uninstall", "binary")
    /\ binary' = [binary EXCEPT ![Default] = "absent"]
    /\ Then("path")
    /\ UNCHANGED <<link, config, entry, ready>>

\* remove_from_path: whatever the link leads to; the one to the binary that was
\* just removed leads nowhere and stays.
RemoveFromPath ==
    /\ AtStep("uninstall", "path")
    /\ link' = IF LinkExists THEN None ELSE link
    /\ job' = NoJob
    /\ UNCHANGED <<binary, config, entry, ready>>

-----------------------------------------------------------------------------
\* A step fails, or the run is stopped.
Stop == job # NoJob /\ job' = NoJob /\ UNCHANGED <<installed, ready>>

\* What the owner of the machine does between runs.
EditConfig ==
    /\ job = NoJob /\ config # "absent"
    /\ config' = "edited"
    /\ UNCHANGED <<binary, link, entry, job, ready>>

Clean ==
    /\ job = NoJob
    /\ \/ \E d \in Portable : binary[d] # "absent"
            /\ binary' = [binary EXCEPT ![d] = "absent"] /\ UNCHANGED <<link, config>>
       \/ link # None /\ link' = None /\ UNCHANGED <<binary, config>>
       \/ config # "absent" /\ config' = "absent" /\ UNCHANGED <<binary, link>>
    /\ ready' = None
    /\ UNCHANGED <<entry, job>>

SetupNext ==
    \/ \E d \in Dirs : Install(d)
    \/ ExtractBinary \/ SetUpConfig \/ WriteDefaultConfig
    \/ AddToPath \/ CreateShortcuts
    \/ Uninstall \/ RemoveBinary \/ RemoveFromPath
    \/ Stop \/ EditConfig \/ Clean

SetupSpec == SetupInit /\ [][SetupNext]_setupVars

-----------------------------------------------------------------------------
\* After an installation that returned Ok, whatever was installed, removed or
\* left half done before, soteriad on the path is the binary it wrote, whole,
\* a configuration is there, and the desktop entry starts what was installed.
InstalledRuns ==
    ready # None =>
        /\ link = ready /\ binary[ready] = "whole"
        /\ config # "absent"
        /\ ready = Default => entry = Default

=============================================================================
