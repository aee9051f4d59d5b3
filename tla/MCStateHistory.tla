--------------------------- MODULE MCStateHistory ---------------------------
EXTENDS StateHistory

\* One block leaves everything as it is, one gives an account an asset and a
\* stake, and one takes them away and gives the asset to another.
MCEffects ==
    {<<>>,
     <<"account", 1>> :> 1 @@ <<"asset", 1>> :> 1 @@ <<"stake", 1>> :> 2,
     <<"account", 1>> :> 0 @@ <<"asset", 1>> :> 0 @@ <<"stake", 1>> :> 0
        @@ <<"asset", 2>> :> 1}
=============================================================================
