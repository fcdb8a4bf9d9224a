------------------------------ MODULE MCServer ------------------------------
(* Packets for checking Server with TLC: one for every case of the switch,   *)
(* with the length of the case or another one.                               *)
EXTENDS Server

MCDatagrams ==
    {<<"ep2", 1032>>, <<"discovery", 63>>, <<"discovery", 64>>, <<"stop", 64>>,
     <<"start_2", 64>>, <<"program", 264>>, <<"erase", 64>>, <<"erase", 63>>}
MCMessages == {"ep2", "discovery", "stop", "start", "start_2", "erase", "set_ip"}
=============================================================================
