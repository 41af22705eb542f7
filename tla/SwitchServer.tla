---------------------------- MODULE SwitchServer ----------------------------
(***************************************************************************)
(* The switch server (src/user/switch-server) and the one task that waits  *)
(* for its changes, renderSwitchTask (src/user/ui/interface.c), which      *)
(* waits for any switch.  The server has priority 2: it handles a request  *)
(* before any task of a lower one goes on, so a request is one step.       *)
(***************************************************************************)
CONSTANTS
    Switch,    \* the switches
    Coupled,   \* those of the centre, set in pairs
    Partner    \* the other switch of the pair

ASSUME SwitchAssumption ==
    /\ Coupled \subseteq Switch
    /\ Partner \in [Coupled -> Coupled]
    /\ \A s \in Coupled : Partner[s] # s /\ Partner[Partner[s]] = s

VARIABLES
    switch_states,  \* the mode of each switch: "S" or "C"
    renderSwitch    \* renderSwitchTask: "waits" for a change, "told" of one, "sent" to
                    \* the train system server, or "answered" by it
switchVars == <<switch_states, renderSwitch>>

Mode == {"S", "C"}
Opposite(mode) == IF mode = "S" THEN "C" ELSE "S"

\* Mutant of Told: a task that has been told is told again.
ToldTwice(states) ==
    renderSwitch' = IF states = switch_states THEN renderSwitch ELSE "told"

\* unblock_on_switch: the first change answers the wait; who has been told of it hears
\* nothing of later ones until it waits again.
Told(states) ==
    renderSwitch' = IF renderSwitch = "waits" /\ states # switch_states
                    THEN "told" ELSE renderSwitch

\* SWITCH_SET, answered before it is carried out.  Setting a centre switch sets its
\* partner to the opposite mode.
SwitchSet(s, mode) ==
    LET states == [x \in Switch |->
                     IF x = s THEN mode
                     ELSE IF s \in Coupled /\ x = Partner[s] THEN Opposite(mode)
                     ELSE switch_states[x]]
    IN  switch_states' = states /\ Told(states)

\* SWITCH_WAIT: no look at the modes.
WaitOnSwitchChange ==
    /\ renderSwitch = "answered"
    /\ renderSwitch' = "waits"
    /\ UNCHANGED switch_states

\* The switches are as trainsys_init_track has set them.
SwitchInit ==
    /\ switch_states \in [Switch -> Mode]
    /\ \A s \in Coupled : switch_states[Partner[s]] = Opposite(switch_states[s])
    /\ renderSwitch = "waits"

SwitchTypeOK ==
    /\ switch_states \in [Switch -> Mode]
    /\ renderSwitch \in {"waits", "told", "sent", "answered"}
=============================================================================
