------------------------------- MODULE Errors --------------------------------
(***************************************************************************)
(* The errors of the library (mongodb/error.go).  A Go error is the        *)
(* sequence of its layers, what Unwrap steps through, from the outermost   *)
(* inwards; nil has none.                                                  *)
(***************************************************************************)
EXTENDS Sequences

Nil == <<>>

ErrDisconnect == <<"client is disconnected">>
ErrNoDocumentFound == <<"no documents in result">>

(* errors.Is for an error without inner ones.                               *)
Is(err, sentinel) == \E k \in DOMAIN err : err[k] = sentinel[1]

(* mongo.IsTimeout of the driver looks at every layer.                      *)
DriverIsTimeout(err) == \E k \in DOMAIN err : err[k] = "timeout"

(* IsTimeout and IsServerErr look for Error in the outermost layer only.    *)
IsTimeout(err) == err # Nil /\ err[1] = "Error" /\ DriverIsTimeout(Tail(err))

IsServerErr(err) == err # Nil /\ err[1] = "Error" /\ ~DriverIsTimeout(Tail(err))

(* Mutant: a disconnected client is an error of the server.                 *)
wrapMongoErrorServer(err) ==
  CASE err = Nil -> Nil
    [] Is(err, ErrNoDocumentFound) -> ErrNoDocumentFound
    [] OTHER -> <<"Error">> \o err

wrapMongoError(err) ==
  CASE err = Nil -> Nil
    [] Is(err, ErrDisconnect) -> ErrDisconnect
    [] Is(err, ErrNoDocumentFound) /\ ~Is(err, ErrDisconnect) -> ErrNoDocumentFound
    [] OTHER -> <<"Error">> \o err
=============================================================================
