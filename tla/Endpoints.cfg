SPECIFICATION Spec
CONSTANTS
    r1 = r1
    r2 = r2
    e1 = e1
    e2 = e2
    a1 = a1
    a2 = a2
    moving = moving
    carrying = carrying
    shapeless = shapeless
    out = out
    in = in
    nat = nat
    Requests = {r1, r2}
    Endpoints = {e1, e2}
    Accounts = {a1, a2}
    URLs = {moving, carrying, shapeless}
    Shaped = {moving, carrying}
    Addresses = {out, in, nat}
    Leads <- MCLeads
    Carries <- MCCarries
    Inside = {in}
    MaxEndpoints = 1
    Grace = 2
    Lost = {"register"}
    Nobody = Nobody
    Nothing = Nothing
    Horizon = 2
    MaxSecrets = 3
    MaxKeys = 2
    MaxAsks = 3
SYMMETRY Alike
INVARIANTS
    CountHolds
    SecretsHold
    ConnectsWhereChecked
CHECK_DEADLOCK FALSE
