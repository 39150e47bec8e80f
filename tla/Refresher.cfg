\* One code for each case of process_response_event(); two expiration times.
CONSTANTS
    Methods = {"REGISTER", "PUBLISH", "SUBSCRIBE"}
    Expires = {1, 2}
    Codes = {100, 200, 302, 401, 403, 423, 501}
    ListenerRefreshes = FALSE
    ResubmitFails = FALSE
SPECIFICATION Spec
INVARIANTS NeverForgotten StopIsQuiet
CHECK_DEADLOCK FALSE
