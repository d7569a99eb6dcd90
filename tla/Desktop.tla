------------------------------ MODULE Desktop ------------------------------
(***************************************************************************)
(* The window of the desktop application, desktop/src/main.rs, with what   *)
(* it calls of desktop/src/core.rs.  Every event is handled by itself on   *)
(* the one user interface thread.  The wizard is a window beside the main  *)
(* view, which stays in use.  The text of the volume field, which only     *)
(* names what was chosen, and sizes and messages are left out.             *)
(*                                                                         *)
(* A volume is two files: the volume itself and the sidecar its key is     *)
(* derived with.  The format writes the one and then the other, and may    *)
(* fail between them, or leave a committed log of the new volume that the  *)
(* next load of the old one replays (fs_layer/storage.rs and wal.rs); and  *)
(* the list loads every volume of the vault whenever it is made anew.      *)
(***************************************************************************)
EXTENDS Naturals

CONSTANTS
    Vault,          \* paths in the vault directory
    Elsewhere,      \* paths outside of it
    Passwords

Paths == Vault \cup Elsewhere
NoPath == "none"
NoPass == ""

\* No volume, no log
Absent == "none"

ASSUME DesktopAssumption == Absent \notin Passwords

\* vol and log: the passphrase the volume was made with, and that of the volume in
\* the log.  kdf: whether the sidecar is the one of vol, of another volume, or
\* missing or torn, which VolumeKeyFile::load rejects.
NoFiles == [vol |-> Absent, kdf |-> "unreadable", log |-> Absent]

VARIABLES
    vaultFiles,     \* the files of each path: volume, sidecar and log
    volumes,        \* the list shown: the paths with their mounted flag
    target,         \* volume_target_path
    password,
    dialog,         \* Dialog::CreateVolume is open
    step,           \* cv_step
    newPath,        \* cv_last_path
    pass1, pass2,   \* cv_pass1, cv_pass2
    firstRun

desktopVars == <<vaultFiles, volumes, target, password, dialog, step, newPath, pass1, pass2, firstRun>>
wizard == <<dialog, step, newPath, pass1, pass2>>

-----------------------------------------------------------------------------
\* The sidecar of a volume that is replaced is another volume's from then on.
Stale(kdf) == IF kdf = "own" THEN "other" ELSE kdf

\* OnDiskFile::load replays a log; whatever it finds then is what it returns.
Replayed(f) ==
    IF f.log = Absent THEN f ELSE [vol |-> f.log, kdf |-> Stale(f.kdf), log |-> Absent]

\* The loads of some paths replay what log there is; those of the others fail to,
\* which is ignored.
ReplayedIn(ps) == [p \in Paths |-> IF p \in ps THEN Replayed(vaultFiles[p]) ELSE vaultFiles[p]]

InVault(files) == {p \in Vault : files[p].vol # Absent}

\* reload_volumes: every entry is made anew, as not mounted.
Reloaded(files) == [p \in InVault(files) |-> FALSE]

\* ... and its size is asked of the volume, which is loaded for that.
Reload ==
    /\ \E ps \in SUBSET InVault(vaultFiles) : vaultFiles' = ReplayedIn(ps)
    /\ volumes' = Reloaded(vaultFiles)

\* App::new
WindowInit ==
    /\ vaultFiles = [p \in Paths |-> NoFiles]
    /\ volumes = Reloaded(vaultFiles)
    /\ target = NoPath /\ password = NoPass
    /\ dialog = FALSE /\ step = 0 /\ newPath = NoPath
    /\ pass1 = NoPass /\ pass2 = NoPass
    /\ firstRun = TRUE

RestartWindow ==
    /\ Reload
    /\ target' = NoPath /\ password' = NoPass
    /\ dialog' = FALSE /\ step' = 0 /\ newPath' = NoPath
    /\ pass1' = NoPass /\ pass2' = NoPass
    /\ firstRun' = TRUE

\* Without volumes the first run shows the menu, a welcome and the wizard.
MainView == ~(firstRun /\ DOMAIN volumes = {})

-----------------------------------------------------------------------------
(* The main view *)

ChooseTarget(p) ==
    /\ MainView /\ vaultFiles[p].vol # Absent
    /\ target' = p
    /\ UNCHANGED <<vaultFiles, volumes, password, wizard, firstRun>>

TypePassword(w) ==
    /\ MainView
    /\ password' = w
    /\ UNCHANGED <<vaultFiles, volumes, target, wizard, firstRun>>

\* core::open_volume derives the key, loads, decrypts, and drops what it decrypted.
OpensWith(f, w) == f.vol = w /\ f.kdf = "own"

\* core::close_volume removes the volume file.
CloseVolumes(ps) ==
    [p \in Paths |-> IF p \in ps THEN [vaultFiles[p] EXCEPT !.vol = Absent] ELSE vaultFiles[p]]

\* do_mount, by the button, the menu or Ctrl+M
Mount ==
    /\ target # NoPath /\ password # NoPass
    /\ OpensWith(vaultFiles[target], password)
    /\ password' = NoPass
    /\ Reload
    /\ UNCHANGED <<target, wizard, firstRun>>

\* A mount that fails changes the status line only, but for a log that its load
\* replayed.
MountFails ==
    /\ target # NoPath /\ password # NoPass
    /\ vaultFiles[target].kdf # "unreadable"
    /\ vaultFiles' = ReplayedIn({target})
    /\ UNCHANGED <<volumes, target, password, wizard, firstRun>>

\* do_dismount_all; the button, the menu and Ctrl+D are enabled when a volume is
\* mounted, which none ever is.
DismountAll ==
    /\ \E p \in DOMAIN volumes : volumes[p]
    /\ vaultFiles' = CloseVolumes({p \in DOMAIN volumes : volumes[p]})
    /\ volumes' = Reloaded(vaultFiles')
    /\ UNCHANGED <<target, password, wizard, firstRun>>

-----------------------------------------------------------------------------
(* The wizard; draw_cv_wizard_ui *)

OpenWizard ==
    /\ dialog' = TRUE /\ step' = 0
    /\ UNCHANGED <<vaultFiles, volumes, target, password, newPath, pass1, pass2, firstRun>>

Cancel ==
    /\ dialog
    /\ dialog' = FALSE /\ step' = 0
    /\ UNCHANGED <<vaultFiles, volumes, target, password, newPath, pass1, pass2, firstRun>>

ChooseNew(p) ==
    /\ dialog /\ step = 0
    /\ newPath' = p /\ target' = p
    /\ UNCHANGED <<vaultFiles, volumes, password, dialog, step, pass1, pass2, firstRun>>

TypeNew(w1, w2) ==
    /\ dialog /\ step = 2
    /\ pass1' = w1 /\ pass2' = w2
    /\ UNCHANGED <<vaultFiles, volumes, target, password, dialog, step, newPath, firstRun>>

\* Mutant of NextAllowed: what was typed is not compared.
TypedOnce ==
    \/ step = 0 /\ newPath # NoPath
    \/ step = 1
    \/ step = 2 /\ pass1 # NoPass

\* What each step asks before the next.
NextAllowed ==
    \/ step = 0 /\ newPath # NoPath
    \/ step = 1
    \/ step = 2 /\ pass1 # NoPass /\ pass1 = pass2

GoTo(n) ==
    /\ step' = n
    /\ UNCHANGED <<vaultFiles, volumes, target, password, dialog, newPath, pass1, pass2, firstRun>>

NextStep == dialog /\ NextAllowed /\ GoTo(step + 1)
BackStep == dialog /\ step \in 1..3 /\ GoTo(step - 1)

\* core::create_volume, over whatever is there: save, and then the new sidecar
Formatted(w) == [vol |-> w, kdf |-> "own", log |-> Absent]

\* What an error in it, or a crash, leaves: all as it was; the new volume in the
\* log only; or the new volume without its sidecar, over a sidecar that was not
\* written or was cut short.
HalfFormatted(f, w) ==
    {f, [vol |-> f.vol, kdf |-> f.kdf, log |-> w]} \cup
    {[vol |-> w, kdf |-> k, log |-> Absent] : k \in {Stale(f.kdf), "unreadable"}}

Format ==
    /\ dialog /\ step = 3 /\ newPath # NoPath
    /\ vaultFiles' = [vaultFiles EXCEPT ![newPath] = Formatted(pass1)]
    /\ step' = 4 /\ firstRun' = FALSE
    /\ UNCHANGED <<volumes, target, password, dialog, newPath, pass1, pass2>>

FormatFails ==
    /\ dialog /\ step = 3 /\ newPath # NoPath
    /\ \E f \in HalfFormatted(vaultFiles[newPath], pass1) :
           vaultFiles' = [vaultFiles EXCEPT ![newPath] = f]
    /\ UNCHANGED <<volumes, target, password, wizard, firstRun>>

FinishWizard ==
    /\ dialog /\ step = 4
    /\ target' = IF newPath = NoPath THEN target ELSE newPath
    /\ newPath' = NoPath
    /\ dialog' = FALSE /\ step' = 0
    /\ Reload
    /\ UNCHANGED <<password, pass1, pass2, firstRun>>

WindowNext ==
    \/ \E p \in Paths : ChooseTarget(p) \/ ChooseNew(p)
    \/ \E w \in Passwords : TypePassword(w)
    \/ \E w1, w2 \in Passwords \cup {NoPass} : TypeNew(w1, w2)
    \/ Mount \/ MountFails \/ DismountAll
    \/ OpenWizard \/ Cancel \/ NextStep \/ BackStep \/ Format \/ FormatFails \/ FinishWizard
    \/ RestartWindow

WindowSpec == WindowInit /\ [][WindowNext]_desktopVars

-----------------------------------------------------------------------------
\* The passphrases that open a volume for good.
OpenedBy == [p \in Paths |->
    {w \in Passwords : OpensWith(vaultFiles[p], w) /\ vaultFiles[p].log = Absent}]

\* Whatever is clicked, in whatever order and in both windows, and whatever logs the
\* mounts, the list and a restart replay: a volume that opens goes on opening with
\* the same passphrase, and no volume comes to open with another, but by a format
\* of the path chosen in the wizard, with a passphrase that was typed twice alike.
\* If that fails, that path alone may open with none, as the volume and its sidecar
\* are two files; if it succeeds, the path opens with that passphrase.
OnlyFormatTouches ==
    [][OpenedBy' # OpenedBy =>
        /\ dialog /\ step = 3
        /\ pass1 # NoPass /\ pass1 = pass2
        /\ \E ws \in {{}, {pass1}} : OpenedBy' = [OpenedBy EXCEPT ![newPath] = ws]
        /\ step' = 4 => pass1 \in OpenedBy'[newPath]]_desktopVars

=============================================================================
