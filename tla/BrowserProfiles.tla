-------------------------- MODULE BrowserProfiles --------------------------
(***************************************************************************)
(* Which directory the profile of a connected extension lives in, and the  *)
(* browsers, with their profiles, that a restore has to start.             *)
(*                                                                         *)
(* The extension knows the id it generated, not the directory.  The agent  *)
(* looks for the id in the browser's files, on the command line of the     *)
(* browser, and takes the profile used last when it finds neither.         *)
(***************************************************************************)
EXTENDS Naturals, FiniteSets

CONSTANTS
    Browser,       \* browsers with a registered host
    Chromium,      \* those among them with profile directories
    Profile,       \* profile ids
    Dir,           \* profile directories
    SafeDir,       \* those whose name says nothing of the user
    BrowserWindow, \* rows of browser_windows in the snapshot
    browserOf,     \* Profile -> Browser
    homeOf,        \* Profile -> the directory it lives in
    profileOf,     \* BrowserWindow -> Profile
    commandDir,    \* Browser -> the directory its command line names, or Nowhere
    Nowhere

ASSUME ProfilesAssumption ==
    /\ Chromium \subseteq Browser /\ SafeDir \subseteq Dir
    /\ browserOf \in [Profile -> Browser] /\ homeOf \in [Profile -> Dir]
    /\ profileOf \in [BrowserWindow -> Profile]
    /\ commandDir \in [Browser -> Dir \cup {Nowhere}]
    /\ Nowhere \notin Dir

VARIABLES
    onDisk,        \* profiles whose id is in the files of their browser
    lastUsed,      \* the profile directory a browser used last
    profileDir,    \* browser_status: the directory recorded for a profile, or Nowhere
    certain        \* history: profiles whose last handshake found the id

profileVars == <<onDisk, lastUsed, profileDir, certain>>

-----------------------------------------------------------------------------
(* A handshake.                                                            *)

Safe(d) == IF d \in SafeDir THEN d ELSE Nowhere

\* The directories a browser lists, those with a safe name.
KnownDirs(b) == IF b \in Chromium THEN {homeOf[p] : p \in {q \in Profile : browserOf[q] = b}} \cap SafeDir ELSE {}

DirectoryForProfileId(p) ==
    IF p \in onDisk /\ homeOf[p] \in KnownDirs(browserOf[p]) THEN homeOf[p] ELSE Nowhere

FromCommandLine(b) == Safe(commandDir[b])

LastUsed(b) == IF b \in Chromium THEN Safe(lastUsed[b]) ELSE Nowhere

\* The best source that has an answer.
ResolvedDir(p) ==
    IF DirectoryForProfileId(p) # Nowhere THEN DirectoryForProfileId(p)
    ELSE IF FromCommandLine(browserOf[p]) # Nowhere THEN FromCommandLine(browserOf[p])
    ELSE LastUsed(browserOf[p])

\* A handshake that resolves nothing keeps what was recorded.
Hello(p) ==
    /\ profileDir' = [profileDir EXCEPT ![p] = IF ResolvedDir(p) = Nowhere THEN @ ELSE ResolvedDir(p)]
    /\ certain' = IF DirectoryForProfileId(p) # Nowhere THEN certain \cup {p} ELSE certain \ {p}
    /\ UNCHANGED <<onDisk, lastUsed>>

\* External: storage.local reaches the disk, and the user turns to a profile.
Persists(p) == onDisk' = onDisk \cup {p} /\ UNCHANGED <<lastUsed, profileDir, certain>>
UserTurnsToProfile(b, d) ==
    /\ \E p \in Profile : browserOf[p] = b /\ homeOf[p] = d
    /\ lastUsed' = [lastUsed EXCEPT ![b] = d]
    /\ UNCHANGED <<onDisk, profileDir, certain>>

InitProfiles ==
    /\ onDisk \in SUBSET Profile /\ certain = {}
    /\ lastUsed = [b \in Browser |-> CHOOSE d \in Dir : \E p \in Profile : browserOf[p] = b /\ homeOf[p] = d]
    /\ profileDir = [p \in Profile |-> Nowhere]

-----------------------------------------------------------------------------
(* What a restore starts.                                                  *)

\* Profiles with a row in the snapshot, and those with a window that is wanted.
Stored(b) == {p \in Profile : browserOf[p] = b /\ \E w \in BrowserWindow : profileOf[w] = p}
Selected(b, wanted) == {p \in Stored(b) : \E w \in wanted : profileOf[w] = p}

\* Mutant: every profile of the snapshot counts.
CandidatesAll(b, wanted) == Stored(b)

Candidates(b, wanted) == IF Selected(b, wanted) = {} THEN Stored(b) ELSE Selected(b, wanted)

Recorded(b, wanted) == {p \in Candidates(b, wanted) : profileDir[p] # Nowhere}

\* One directory means one answer.
ProfileDirFor(b, wanted) ==
    IF Cardinality(Recorded(b, wanted)) = 1
    THEN profileDir[CHOOSE p \in Recorded(b, wanted) : TRUE] ELSE Nowhere

\* Firefox names its profiles, and the name is the user's.
LaunchArgsFor(b, d) == IF b \in Chromium THEN Safe(d) ELSE Nowhere

BrowsersToLaunch(wanted, captured, running) ==
    {[browser |-> b, dir |-> LaunchArgsFor(b, ProfileDirFor(b, wanted))] :
        b \in ({browserOf[profileOf[w]] : w \in wanted} \cap captured) \ running}
=============================================================================
