-------------------------------- MODULE MCDispatch --------------------------------
EXTENDS Dispatch, TLC

(* A context of each frontend.                                             *)
Both == <<"ipc", "xim">>
OneEach == CHOOSE f \in [IC -> 0..1] : \A a, b \in IC : f[a] = f[b] => a = b

SomeTexts ==
  { [pieces |-> <<>>, valid |-> TRUE], [pieces |-> <<[format |-> {}, length |-> 1]>>, valid |-> FALSE],
    [pieces |-> <<[format |-> {"UnderLine"}, length |-> 2], [format |-> {}, length |-> 1]>>, valid |-> TRUE] }

(* A modifier and a letter, both of them hotkeys.                          *)
Hotkeys == << KEY(FcitxKey.Shift_L, {}), KEY(FcitxKey.space, {"Ctrl"}) >>
SomeKeys == {Hotkeys[1], Hotkeys[2]}
=============================================================================
