------------------------------ MODULE MCMwdd32 ------------------------------
(* Requests, IDC calls and client images for model-checking Mwdd32.        *)
EXTENDS Mwdd32

Request(cmd, func, magic, base, help) ==
  [cmd |-> cmd, func |-> func, magic_in |-> magic,
   pTKSSBase |-> base, pDevHelp32 |-> help]

Plain(cmd) == Request(cmd, "bad_category", FALSE, FALSE, FALSE)
Ioctl(func) == Request(GENERIC_IOCTL, func, TRUE, TRUE, TRUE)

(* One request per test in the driver.                                     *)
AllRequests ==
  {Plain(cmd) : cmd \in {0, 4, OPEN, CLOSE, SHUTDOWN, INIT_COMPLETE, 32}}
  \cup {Ioctl(func) : func \in IoctlFunctions}
  \cup {Request(GENERIC_IOCTL, func, FALSE, TRUE, TRUE)
          : func \in {"INIT_FSD", "INIT_DEVICE"}}
  \cup {Request(GENERIC_IOCTL, "INIT_DEVICE", TRUE, FALSE, TRUE),
        Request(GENERIC_IOCTL, "INIT_DEVICE", TRUE, TRUE, FALSE)}

AllIdcCalls ==
  [interface : {"new"}, func : {1, 2}, pTKSSBase : BOOLEAN, pDevHelp32 : BOOLEAN]
  \cup [interface : {"old"}, func : {0}, pTKSSBase : BOOLEAN, pDevHelp32 : BOOLEAN]
=============================================================================
