------------------------------ MODULE MCGateway ------------------------------
(* ProviderGateway on small instances. *)
EXTENDS ProviderGateway

Brazil == [country |-> "BR", currency |-> "BRL"]
Mexico == [country |-> "MX", currency |-> "MXN"]

\* Two providers that serve Brazil, in either order, or one of them.
BrazilConfigurations == {<<"stripe", "mercadopago">>, <<"mercadopago">>}
BrazilPairs == {Brazil}

ConektaAlone == {<<"conekta">>}
MexicoPairs == {Mexico}

\* A state for each status the adapters tell apart.
SomeWords ==
  [ stripe |-> {"processing", "succeeded"},
    mercadopago |-> {"approved", "rejected"},
    pagarme |-> {"pending", "paid"},
    conekta |-> {"pending_payment", "paid"},
    dlocal |-> {"PENDING", "PAID"} ]
=============================================================================
