-------------------------------- MODULE Parts --------------------------------
(***************************************************************************)
(* Three parts that can be looked at by themselves: the keyboard's codes,  *)
(* the size of the terminal, and the playback of a finished recording.     *)
(* They share nothing here, so that one of them runs in each behaviour.    *)
(***************************************************************************)
EXTENDS Keyboard, WindowSize, Playback

VARIABLE part    \* which part runs

partsVars == <<part, keyboardVars, windowVars, playbackVars>>

\* The parts that do not run rest in one state.
KeyboardRests ==
    /\ cheatcodes = FALSE /\ lockseq = 0 /\ killseq = 0
    /\ locked = FALSE /\ effect = {} /\ typed = <<>>

WindowRests ==
    /\ real = 1 /\ winsize = 1 /\ pty = 1 /\ installed = FALSE
    /\ lockedSince = FALSE /\ locks = 0 /\ unlocks = 0 /\ resizes = 0
    /\ pending = {} /\ stack = [t \in Thread |-> <<>>]
    /\ missed = FALSE /\ overdrawn = FALSE

PlaybackRests ==
    /\ times = <<>> /\ file = <<>> /\ torn = "nothing" /\ shown = 0
    /\ drift = Zero /\ timeout = Zero /\ speed = <<1, 1>>
    /\ keys = 0 /\ late = 0 /\ spent = 0

PartsInit ==
    \/ part = "keyboard" /\ KeyboardInit /\ WindowRests /\ PlaybackRests
    \/ part = "window"   /\ KeyboardRests /\ WindowInit /\ PlaybackRests
    \/ part = "playback" /\ KeyboardRests /\ WindowRests /\ PlaybackInit

PartsNext ==
    /\ UNCHANGED part
    /\ \/ part = "keyboard" /\ KeyboardNext /\ UNCHANGED <<windowVars, playbackVars>>
       \/ part = "window"   /\ WindowNext /\ UNCHANGED <<keyboardVars, playbackVars>>
       \/ part = "playback" /\ PlaybackNext /\ UNCHANGED <<keyboardVars, windowVars>>

PartsSpec == PartsInit /\ [][PartsNext]_partsVars
=============================================================================
